---- MODULE Spec2Model ----
(***************************************************************************)
(* State-machine model of the workflow orchestration core:                 *)
(*   - WorkflowContext (app/temporal/workflows/base.py) and the run()      *)
(*     methods of HelloWorldWorkflow, RubyWorkflow and                     *)
(*     SlideshowsPinterestWorkflow that drive it;                          *)
(*   - LiteLLMClient.complete (app/core/providers/litellm/client.py);      *)
(*   - SlideshowsPinterestWorkflow._scrape_pinterest (the scrape fan-out). *)
(*                                                                         *)
(* Python values: an Optional value is a sequence of length 0 (None) or 1; *)
(* a text built by an f-string is the sequence of its parts.               *)
(***************************************************************************)
EXTENDS Integers, Sequences, FiniteSets, TLC

VARIABLES
    app_config,       \* WORKFLOW_SECRET_ENABLED, WORKFLOW_SECRET_KEY
    wf,               \* who drives the context: a workflow's run(), or any caller
    input,            \* the workflow input of this invocation
    pc,               \* position of run()
    step_idx,         \* index of the step run() is at, in Plan(wf, input)
    status,           \* WorkflowContext._status
    current_step,     \* WorkflowContext._current_step (Optional StepProgress)
    completed_steps,  \* WorkflowContext._completed_steps
    open,             \* the step() context managers entered and not yet left
    raised,           \* the exception the last operation raised to its caller
    fallback_config,  \* LiteLLMClient._fallback_config
    request,          \* the CompletionRequest of this call of complete()
    llm_pc,           \* position of LiteLLMClient.complete
    calls,            \* the models _complete_with_model was called with, in order
    primary_error,    \* complete()'s local primary_error (Optional)
    fallback_error,   \* complete()'s local fallback_error (Optional)
    llm_returned,     \* the CompletionResponse complete() returned (Optional)
    llm_raised,       \* the exception complete() raised (Optional)
    queries,          \* the argument of _scrape_pinterest
    scrape_pc,        \* position of _scrape_pinterest
    results,          \* per query: how its task settled (None while it runs)
    all_pins,         \* _scrape_pinterest's local all_pins
    errors,           \* _scrape_pinterest's local errors
    scrape_returned,  \* the value _scrape_pinterest returned (Optional)
    scrape_raised,    \* the exception _scrape_pinterest raised (Optional)
    settle_order,     \* the queries' indices in the order their tasks settled
    sel_pins,         \* the argument of _select_best_images
    sel_pc,           \* position of _select_best_images
    scored_pins,      \* _select_best_images' local scored_pins
    selected,         \* _select_best_images' local selected
    selected_hashes,  \* _select_best_images' local selected_hashes
    skipped_similar,  \* _select_best_images' local skipped_similar
    up_images,        \* the argument of _upload_images
    upload_pc,        \* position of _upload_images
    upload_results,   \* per image: how its upload settled (None while it runs)
    upload_returned,  \* the value _upload_images returned (Optional)
    images,           \* the local images of SlideshowsPinterestWorkflow.run
    ruby_urls,        \* the locals of RubyWorkflow.run that hold urls, and the urls
                      \* it handed to the rewrite activities
    activities,       \* the activities RubyWorkflow.run has invoked, in order
    rw_op,            \* the rewrite activity invoked: "images" or "video"
    rw_api_key,       \* app_config.GPTMARKET_API_KEY (Optional)
    rw_urls,          \* the urls handed to the activity, in order
    rw_pc,            \* position of the activity and of the tool's execute()
    rw_reply,         \* what the post to the rewrite service ended by (Optional)
    rw_result,        \* the rewritten urls handed back, in order (Optional)
    rw_raised,        \* the exception that left execute() (Optional)
    et_tool_id,       \* ExecuteToolInput.tool_id of a scrape's execute_tool
    et_fault,         \* what goes wrong in the tool call of this scrape
    et_query,         \* the query of this scrape
    et_attempts,      \* how many times the activity has been executed
    et_pc,            \* position of the activity's execution
    et_result,        \* how the scrape's task settled (Optional)
    et_errors,        \* errors of _scrape_pinterest after this branch
    et_pins,          \* all_pins of _scrape_pinterest after this branch
    \* get_temporal_client, called by concurrent tasks of one process
    cl_instance,      \* _ClientHolder.instance
    cl_pc,            \* where each caller is in get_temporal_client
    cl_got,           \* the client each caller received
    cl_connects,      \* the connections established so far
    cl_calls,         \* the calls made so far
    \* a generation activity over ReplicateClient.run
    rp_kind,          \* "image" or "video"
    rp_wait,          \* the argument wait of run
    rp_pc,            \* where the call is
    rp_server,        \* the prediction as the service holds it
    rp_raw,           \* raw_prediction of run
    rp_prediction,    \* what run returned
    rp_activity       \* how the activity ended

ctxVars == <<status, current_step, completed_steps, open, raised>>
runVars == <<app_config, wf, input, pc, step_idx>>
llmVars == <<fallback_config, request, llm_pc, calls, primary_error, fallback_error,
             llm_returned, llm_raised>>
vars == <<app_config, wf, input, pc, step_idx,
          status, current_step, completed_steps, open, raised,
          fallback_config, request, llm_pc, calls, primary_error, fallback_error,
          llm_returned, llm_raised,
          queries, scrape_pc, results, all_pins, errors, scrape_returned, scrape_raised,
          settle_order,
          sel_pins, sel_pc, scored_pins, selected, selected_hashes, skipped_similar,
          up_images, upload_pc, upload_results, upload_returned, images,
          ruby_urls, activities,
          rw_op, rw_api_key, rw_urls, rw_pc, rw_reply, rw_result, rw_raised,
          et_tool_id, et_fault, et_query, et_attempts, et_pc, et_result, et_errors, et_pins,
          cl_instance, cl_pc, cl_got, cl_connects, cl_calls,
          rp_kind, rp_wait, rp_pc, rp_server, rp_raw, rp_prediction, rp_activity>>
scrapeVars == <<queries, scrape_pc, results, all_pins, errors, scrape_returned,
                scrape_raised, settle_order>>
selectVars == <<sel_pins, sel_pc, scored_pins, selected, selected_hashes, skipped_similar>>
uploadVars == <<up_images, upload_pc, upload_results, upload_returned>>
pipeVars == <<images>>
rubyVars == <<ruby_urls, activities>>
rewriteVars == <<rw_op, rw_api_key, rw_urls, rw_pc, rw_reply, rw_result, rw_raised>>
toolVars == <<et_tool_id, et_fault, et_query, et_attempts, et_pc, et_result, et_errors,
              et_pins>>
\* the variables of the operations outside the workflows
clientVars == <<cl_instance, cl_pc, cl_got, cl_connects, cl_calls>>
replVars == <<rp_kind, rp_wait, rp_pc, rp_server, rp_raw, rp_prediction, rp_activity>>
auxVars == <<toolVars, clientVars, replVars>>
\* what the operations on the context and the runs of the workflows leave alone
notCtx == <<llmVars, scrapeVars, selectVars, uploadVars, pipeVars, rubyVars, rewriteVars, auxVars>>
\* what LiteLLMClient.complete leaves alone
notLLM == <<runVars, ctxVars, scrapeVars, selectVars, uploadVars, pipeVars, rubyVars, rewriteVars, auxVars>>
\* what _scrape_pinterest leaves alone
notScrape == <<runVars, ctxVars, llmVars, selectVars, uploadVars, pipeVars, rubyVars, rewriteVars, auxVars>>
\* what _select_best_images leaves alone
notSelect == <<runVars, ctxVars, llmVars, scrapeVars, uploadVars, pipeVars, rubyVars, rewriteVars, auxVars>>
\* what _upload_images leaves alone
notUpload == <<runVars, ctxVars, llmVars, scrapeVars, selectVars, pipeVars, rubyVars, rewriteVars, auxVars>>

-----------------------------------------------------------------------------
(* Bounds of the model *)

\* in caller mode: at most this many entries in _completed_steps
MaxCompleted == 2
\* in caller mode: at most this many step() blocks nested in each other
MaxDepth == 2
\* at most this many queries in one scrape fan-out
MaxQueries == 3
\* at most this many pins in a list drawn from the pool
MaxPins == 3

-----------------------------------------------------------------------------
(* Python values *)

None == <<>>
Some(x) == <<x>>
\* truth value of an Optional[str]: None and '' are falsy
Truthy(opt) == opt # None /\ opt[1] # ""

\* WorkflowStatus
PENDING == "pending"
RUNNING == "running"
COMPLETED == "completed"
FAILED == "failed"
CANCELLED == "cancelled"
WorkflowStatus == {PENDING, RUNNING, COMPLETED, FAILED, CANCELLED}

\* classes caught by "except Exception"; asyncio.CancelledError derives from
\* BaseException only
ExceptionClasses == {"ApplicationError", "ActivityError", "ValueError", "RuntimeError"}
IsException(e) == e.cls \in ExceptionClasses

\* str(e)
Str(e) == <<e.text>>

StepProgress(step_id, step_name, st, progress_pct, message) ==
    [step_id |-> step_id, step_name |-> step_name, status |-> st,
     progress_pct |-> progress_pct, message |-> message]

-----------------------------------------------------------------------------
(* WorkflowContext *)

\* the error start() raises for this configuration and input, or None
AuthError(cfg, inp) ==
    IF cfg.WORKFLOW_SECRET_ENABLED
    THEN IF ~Truthy(cfg.WORKFLOW_SECRET_KEY)
         THEN Some([cls |-> "ApplicationError",
                    text |-> "WORKFLOW_SECRET_KEY not configured on server",
                    non_retryable |-> TRUE])
         ELSE IF inp.secret_key # cfg.WORKFLOW_SECRET_KEY
              THEN Some([cls |-> "ApplicationError",
                         text |-> "Authentication failed: invalid secret_key",
                         non_retryable |-> TRUE])
              ELSE None
    ELSE None

start_mut(inp) ==
    /\ raised' = AuthError(app_config, inp)
    /\ status' = RUNNING
    /\ UNCHANGED <<current_step, completed_steps, open>>

start(inp) ==
    LET err == AuthError(app_config, inp) IN
    /\ raised' = err
    /\ status' = IF err # None THEN status ELSE RUNNING
    /\ UNCHANGED <<current_step, completed_steps, open>>

complete_mut ==
    /\ status' = COMPLETED
    /\ raised' = None
    /\ UNCHANGED <<current_step, completed_steps, open>>

complete ==
    /\ status' = COMPLETED
    /\ current_step' = Some(StepProgress("complete", "Complete", COMPLETED, 100, <<"Done!">>))
    /\ raised' = None
    /\ UNCHANGED <<completed_steps, open>>

fail(error) ==
    /\ status' = FAILED
    /\ current_step' = IF current_step # None
                       THEN Some([current_step[1] EXCEPT !.status = FAILED, !.message = <<error>>])
                       ELSE current_step
    /\ raised' = None
    /\ UNCHANGED <<completed_steps, open>>

\* step(): the part before the yield
step_enter(step_id, step_name, progress_pct, message) ==
    /\ current_step' = Some(StepProgress(step_id, step_name, RUNNING, progress_pct,
                                         IF message # "" THEN <<message>>
                                                         ELSE <<step_name, "...">>))
    /\ open' = Append(open, step_id)
    /\ raised' = None
    /\ UNCHANGED <<status, completed_steps>>

step_exit_ok_mut ==
    /\ open # <<>>
    /\ current_step' = Some([current_step[1] EXCEPT !.status = COMPLETED])
    /\ open' = SubSeq(open, 1, Len(open) - 1)
    /\ raised' = None
    /\ UNCHANGED <<status, completed_steps>>

\* step(): the body ended normally, the code after the yield
step_exit_ok ==
    /\ open # <<>>
    /\ current_step' = Some([current_step[1] EXCEPT !.status = COMPLETED])
    /\ completed_steps' = Append(completed_steps, open[Len(open)])
    /\ open' = SubSeq(open, 1, Len(open) - 1)
    /\ raised' = None
    /\ UNCHANGED status

step_exit_exc_cancelled(e) ==
    /\ open # <<>>
    /\ open' = SubSeq(open, 1, Len(open) - 1)
    /\ raised' = Some(e)
    /\ IF IsException(e)
       THEN /\ current_step' = Some([current_step[1] EXCEPT !.status = FAILED,
                                                            !.message = Str(e)])
            /\ status' = FAILED
       ELSE /\ status' = CANCELLED
            /\ UNCHANGED current_step
    /\ UNCHANGED completed_steps

step_exit_exc_mut(e) ==
    /\ open # <<>>
    /\ open' = SubSeq(open, 1, Len(open) - 1)
    /\ raised' = Some(e)
    /\ IF IsException(e)
       THEN /\ current_step' = Some([current_step[1] EXCEPT !.status = FAILED])
            /\ status' = FAILED
       ELSE UNCHANGED <<current_step, status>>
    /\ UNCHANGED completed_steps

\* step(): the body ended by e, thrown into the generator at the yield
step_exit_exc(e) ==
    /\ open # <<>>
    /\ open' = SubSeq(open, 1, Len(open) - 1)
    /\ raised' = Some(e)
    /\ IF IsException(e)
       THEN /\ current_step' = Some([current_step[1] EXCEPT !.status = FAILED,
                                                            !.message = Str(e)])
            /\ status' = FAILED
       ELSE UNCHANGED <<current_step, status>>
    /\ UNCHANGED completed_steps

-----------------------------------------------------------------------------
(* The workflows' steps *)

Step(id, name, pct, cond, awaits) ==
    [id |-> id, name |-> name, pct |-> pct, cond |-> cond, awaits |-> awaits]

HelloSteps == << Step("greet", "Generate Greeting", 50, "always", FALSE) >>

RubySteps_mut ==
    << Step("prompts", "Generate Prompts", 0, "always", TRUE),
       Step("face", "Generate Face", 10, "always", TRUE),
       Step("video", "Generate Video", 30, "always", TRUE),
       Step("slowmo", "Apply Slow Motion", 60, "slowed_video", TRUE),
       Step("text", "Add Text", 80, "text_overlay", TRUE),
       Step("rewrite", "Rewrite Media", 95, "rewrite_enabled", TRUE),
       Step("upload", "Upload", 90, "always", TRUE) >>

RubySteps ==
    << Step("prompts", "Generate Prompts", 0, "always", TRUE),
       Step("face", "Generate Face", 10, "always", TRUE),
       Step("video", "Generate Video", 30, "always", TRUE),
       Step("slowmo", "Apply Slow Motion", 60, "slowed_video", TRUE),
       Step("text", "Add Text", 80, "text_overlay", TRUE),
       Step("rewrite", "Rewrite Media", 85, "rewrite_enabled", TRUE),
       Step("upload", "Upload", 90, "always", TRUE) >>

PinterestSteps ==
    << Step("generate_queries", "Generate Search Queries", 10, "always", TRUE),
       Step("scrape", "Collecting Images", 50, "always", TRUE),
       Step("select", "Select Best Images", 70, "always", FALSE),
       Step("rewrite", "Rewrite Images", 80, "rewrite_enabled", TRUE),
       Step("upload", "Save Images", 90, "always", TRUE) >>

Workflows == {"hello", "ruby", "pinterest"}

\* what drives the context by a run(): one of the workflows with the bodies of
\* its steps left open, SlideshowsPinterestWorkflow with the bodies of its
\* steps ("pipeline"), or RubyWorkflow with the bodies of its steps
\* ("sequential")
Runs == Workflows \cup {"pipeline", "sequential"}

Steps(w) ==
    CASE w = "hello" -> HelloSteps
      [] w \in {"ruby", "sequential"} -> RubySteps
      [] w \in {"pinterest", "pipeline"} -> PinterestSteps
      [] OTHER -> <<>>

\* the "if input.<flag>:" in front of an optional step
Taken_mut(cond, inp) ==
    CASE cond = "always" -> TRUE
      [] cond = "slowed_video" -> inp.slowed_video
      [] cond = "text_overlay" -> Truthy(inp.text_overlay)
      [] cond = "rewrite_enabled" -> TRUE

Taken(cond, inp) ==
    CASE cond = "always" -> TRUE
      [] cond = "slowed_video" -> inp.slowed_video
      [] cond = "text_overlay" -> Truthy(inp.text_overlay)
      [] cond = "rewrite_enabled" -> inp.rewrite_enabled

\* the steps run() enters for this input, in order
Plan(w, inp) == SelectSeq(Steps(w), LAMBDA s : Taken(s.cond, inp))

\* AspectRatio(value) raises ValueError for a value that is no member
AspectRatioValues ==
    {"9:16", "9:21", "3:4", "2:3", "16:9", "21:9", "4:3", "3:2", "1:1"}

\* what a step body can be ended by: an error of an activity it awaits, a
\* cancellation at an await
BodyErrors(s) ==
    IF s.awaits
    THEN {[cls |-> "ActivityError", text |-> "Activity task failed"],
          [cls |-> "ApplicationError", text |-> ""],
          [cls |-> "CancelledError", text |-> ""]}
    ELSE IF s.id = "select"
         THEN {[cls |-> "ValueError", text |-> "invalid pin"]}
         ELSE {}

AllBodyErrors ==
    {[cls |-> "ActivityError", text |-> "Activity task failed"],
     [cls |-> "ApplicationError", text |-> ""],
     [cls |-> "CancelledError", text |-> ""],
     [cls |-> "ValueError", text |-> "invalid pin"]}

-----------------------------------------------------------------------------
(* run() of the three workflows *)

RunStart ==
    /\ UNCHANGED notCtx
    /\ wf \in Runs
    /\ pc = "start"
    /\ start(input)
    /\ pc' = IF AuthError(app_config, input) # None THEN "raised"
             ELSE IF wf \in {"ruby", "sequential"} THEN "aspect" ELSE "enter"
    /\ UNCHANGED <<app_config, wf, input, step_idx>>

\* RubyWorkflow.run: aspect_ratio = AspectRatio(input.aspect_ratio)
RubyAspect ==
    /\ UNCHANGED notCtx
    /\ wf \in {"ruby", "sequential"}
    /\ pc = "aspect"
    /\ IF input.aspect_ratio \in AspectRatioValues
       THEN pc' = "enter" /\ UNCHANGED raised
       ELSE /\ pc' = "raised"
            /\ raised' = Some([cls |-> "ValueError", text |-> "not a valid AspectRatio"])
    /\ UNCHANGED <<app_config, wf, input, step_idx,
                   status, current_step, completed_steps, open>>

RunEnterStep ==
    /\ UNCHANGED notCtx
    /\ wf \in Runs
    /\ pc = "enter"
    /\ LET s == Plan(wf, input)[step_idx] IN
       step_enter(s.id, s.name, s.pct, "")
    /\ pc' = "body"
    /\ UNCHANGED <<app_config, wf, input, step_idx>>

\* the body of the step ends normally
RunBodyOk ==
    /\ UNCHANGED notCtx
    /\ wf \in Workflows
    /\ pc = "body"
    /\ pc' = "exit_ok"
    /\ UNCHANGED <<app_config, wf, input, step_idx>>
    /\ UNCHANGED ctxVars

\* the body of the step is ended by an error, which enters step() at its yield
RunBodyRaise ==
    /\ UNCHANGED notCtx
    /\ wf \in Workflows
    /\ pc = "body"
    /\ \E e \in BodyErrors(Plan(wf, input)[step_idx]) : raised' = Some(e)
    /\ pc' = "exit_exc"
    /\ UNCHANGED <<app_config, wf, input, step_idx>>
    /\ UNCHANGED <<status, current_step, completed_steps, open>>

RunStepExitOk ==
    /\ UNCHANGED notCtx
    /\ wf \in Runs
    /\ pc = "exit_ok"
    /\ step_exit_ok
    /\ step_idx' = step_idx + 1
    /\ pc' = IF step_idx + 1 > Len(Plan(wf, input)) THEN "complete" ELSE "enter"
    /\ UNCHANGED <<app_config, wf, input>>

RunStepExitExc_mut ==
    /\ UNCHANGED notCtx
    /\ wf \in Runs
    /\ pc = "exit_exc"
    /\ step_exit_exc(raised[1])
    /\ step_idx' = step_idx + 1
    /\ pc' = IF step_idx + 1 > Len(Plan(wf, input)) THEN "complete" ELSE "enter"
    /\ UNCHANGED <<app_config, wf, input>>

\* the error leaves step() and, nothing in run() catching it, ends run()
RunStepExitExc ==
    /\ UNCHANGED notCtx
    /\ wf \in Runs
    /\ pc = "exit_exc"
    /\ step_exit_exc(raised[1])
    /\ pc' = "raised"
    /\ UNCHANGED <<app_config, wf, input, step_idx>>

\* self._ctx.complete() and the return of the output
RunComplete ==
    /\ UNCHANGED notCtx
    /\ wf \in Runs
    /\ pc = "complete"
    /\ complete
    /\ pc' = "returned"
    /\ UNCHANGED <<app_config, wf, input, step_idx>>

-----------------------------------------------------------------------------
(* Any caller of the context: the public operations in any order *)

CallerSteps == { HelloSteps[1], PinterestSteps[2] }
CallerInputs ==
    [secret_key : {None, Some("k1")}, rewrite_enabled : {FALSE},
     slowed_video : {TRUE}, text_overlay : {None}, aspect_ratio : {"9:16"}]

CallerStart ==
    /\ UNCHANGED notCtx
    /\ wf = "caller"
    /\ \E inp \in CallerInputs : start(inp)
    /\ UNCHANGED runVars

CallerStepEnter ==
    /\ UNCHANGED notCtx
    /\ wf = "caller"
    /\ Len(open) < MaxDepth
    /\ \E s \in CallerSteps, m \in {"", "Working"} : step_enter(s.id, s.name, s.pct, m)
    /\ UNCHANGED runVars

CallerStepExitOk ==
    /\ UNCHANGED notCtx
    /\ wf = "caller"
    /\ Len(completed_steps) < MaxCompleted
    /\ step_exit_ok
    /\ UNCHANGED runVars

CallerStepExitExc ==
    /\ UNCHANGED notCtx
    /\ wf = "caller"
    /\ \E e \in AllBodyErrors : step_exit_exc(e)
    /\ UNCHANGED runVars

CallerComplete ==
    /\ UNCHANGED notCtx
    /\ wf = "caller"
    /\ complete
    /\ UNCHANGED runVars

CallerFail ==
    /\ UNCHANGED notCtx
    /\ wf = "caller"
    /\ \E error \in {"boom"} : fail(error)
    /\ UNCHANGED runVars

-----------------------------------------------------------------------------
(* Texts, as sequences of characters *)

UpperCase == <<"A", "B", "C", "D", "E", "F", "G", "H", "I", "J", "K", "L", "M", "N", "O", "P", "Q", "R", "S", "T", "U", "V", "W", "X", "Y", "Z">>
LowerCase == <<"a", "b", "c", "d", "e", "f", "g", "h", "i", "j", "k", "l", "m", "n", "o", "p", "q", "r", "s", "t", "u", "v", "w", "x", "y", "z">>

ToLower(c) ==
    IF \E i \in DOMAIN UpperCase : UpperCase[i] = c
    THEN LowerCase[CHOOSE i \in DOMAIN UpperCase : UpperCase[i] = c]
    ELSE c

\* s.lower()
Lower(s) == [i \in 1..Len(s) |-> ToLower(s[i])]

\* p in s
Contains(s, p) == \E i \in 0..(Len(s) - Len(p)) : SubSeq(s, i + 1, i + Len(p)) = p

-----------------------------------------------------------------------------
(* LiteLLMClient *)

\* app_config.LITELLM_PRIMARY_MODEL, app_config.LITELLM_FALLBACK_MODEL
LITELLM_PRIMARY_MODEL == <<"g", "e", "m", "i", "n", "i", "/", "g", "e", "m", "i", "n", "i", "-", "2", ".", "0", "-", "f", "l", "a", "s", "h">>
LITELLM_FALLBACK_MODEL == <<"o", "p", "e", "n", "a", "i", "/", "g", "p", "t", "-", "5", "-", "n", "a", "n", "o">>

\* FallbackConfig.retry_exceptions (its default)
DefaultRetryExceptions ==
    << <<"R", "a", "t", "e", "L", "i", "m", "i", "t", "E", "r", "r", "o", "r">>,
       <<"A", "P", "I", "C", "o", "n", "n", "e", "c", "t", "i", "o", "n", "E", "r", "r", "o", "r">>,
       <<"T", "i", "m", "e", "o", "u", "t">>,
       <<"S", "e", "r", "v", "i", "c", "e", "U", "n", "a", "v", "a", "i", "l", "a", "b", "l", "e", "E", "r", "r", "o", "r">> >>

transient_indicators ==
    << <<"r", "a", "t", "e", " ", "l", "i", "m", "i", "t">>,
       <<"t", "i", "m", "e", "o", "u", "t">>,
       <<"c", "o", "n", "n", "e", "c", "t", "i", "o", "n">>,
       <<"u", "n", "a", "v", "a", "i", "l", "a", "b", "l", "e">>,
       <<"o", "v", "e", "r", "l", "o", "a", "d", "e", "d">>,
       <<"4", "2", "9">>,
       <<"5", "0", "3">>,
       <<"5", "0", "2">> >>

\* an exception: the name of its type, str(error), and whether its type derives
\* from Exception (so that "except Exception" catches it)
Error(type_name, text, is_exception) ==
    [type_name |-> type_name, text |-> text, is_exception |-> is_exception]

should_fallback(error) ==
    LET error_type == error.type_name
        error_str == Lower(error.text)
        retry_exceptions == fallback_config.retry_exceptions
    IN  \/ \E i \in DOMAIN retry_exceptions :
              \/ Contains(error_type, retry_exceptions[i])
              \/ Contains(error_str, Lower(retry_exceptions[i]))
        \/ \E i \in DOMAIN transient_indicators :
              Contains(error_str, transient_indicators[i])

\* the errors a call of _complete_with_model is ended by in this model
LLMErrors ==
    { Error(<<"R", "a", "t", "e", "L", "i", "m", "i", "t", "E", "r", "r", "o", "r">>, <<"q", "u", "o", "t", "a", " ", "e", "x", "c", "e", "e", "d", "e", "d">>, TRUE),
      Error(<<"A", "P", "I", "T", "i", "m", "e", "o", "u", "t", "E", "r", "r", "o", "r">>, <<"n", "o", " ", "a", "n", "s", "w", "e", "r">>, TRUE),
      Error(<<"V", "a", "l", "u", "e", "E", "r", "r", "o", "r">>, <<"R", "a", "t", "e", " ", "L", "i", "m", "i", "t", " ", "h", "i", "t">>, TRUE),
      Error(<<"B", "a", "d", "R", "e", "q", "u", "e", "s", "t", "E", "r", "r", "o", "r">>, <<"H", "T", "T", "P", " ", "5", "0", "3">>, TRUE),
      Error(<<"E", "x", "c", "e", "p", "t", "i", "o", "n">>, <<"u", "p", "s", "t", "r", "e", "a", "m", " ", "r", "a", "t", "e", "l", "i", "m", "i", "t", "e", "r", "r", "o", "r">>, TRUE),
      Error(<<"A", "u", "t", "h", "e", "n", "t", "i", "c", "a", "t", "i", "o", "n", "E", "r", "r", "o", "r">>, <<"i", "n", "v", "a", "l", "i", "d", " ", "a", "p", "i", " ", "k", "e", "y">>, TRUE),
      Error(<<"I", "n", "d", "e", "x", "E", "r", "r", "o", "r">>, <<"l", "i", "s", "t", " ", "i", "n", "d", "e", "x", " ", "o", "u", "t", " ", "o", "f", " ", "r", "a", "n", "g", "e">>, TRUE),
      Error(<<"C", "a", "n", "c", "e", "l", "l", "e", "d", "E", "r", "r", "o", "r">>, <<>>, FALSE) }

CompletionResponse_mut(model, fallback_used) ==
    [model |-> model, fallback_used |-> TRUE]

\* what _complete_with_model returns, as far as complete() decides it
CompletionResponse(model, fallback_used) ==
    [model |-> model, fallback_used |-> fallback_used]

\* model = request.model or self._primary_model
PrimaryModel(req) == IF Truthy(req.model) THEN req.model[1] ELSE LITELLM_PRIMARY_MODEL

TriesFallback_mut(cfg, error) == should_fallback(error)

\* the two "raise" of the handler of the primary error: whether complete()
\* goes on to the fallback model
TriesFallback(cfg, error) == cfg.enabled /\ should_fallback(error)

BothFailedError_mut(model, fallback_model, p_error, f_error) ==
    [type_name |-> <<"R", "u", "n", "t", "i", "m", "e", "E", "r", "r", "o", "r">>,
     text |-> <<"B", "o", "t", "h", " ", "p", "r", "i", "m", "a", "r", "y", " ", "(">> \o model \o <<")", " ", "a", "n", "d", " ", "f", "a", "l", "l", "b", "a", "c", "k", " ", "(">> \o fallback_model
              \o <<")", " ", "m", "o", "d", "e", "l", "s", " ", "f", "a", "i", "l", "e", "d", ".", " ", "P", "r", "i", "m", "a", "r", "y", " ", "e", "r", "r", "o", "r", ":", " ">> \o <<".", " ", "F", "a", "l", "l", "b", "a", "c", "k", " ", "e", "r", "r", "o", "r", ":", " ">> \o f_error.text,
     is_exception |-> TRUE,
     cause |-> Some(f_error)]

\* raise RuntimeError(f'Both primary ... failed. ...') from fallback_error
BothFailedError(model, fallback_model, p_error, f_error) ==
    [type_name |-> <<"R", "u", "n", "t", "i", "m", "e", "E", "r", "r", "o", "r">>,
     text |-> <<"B", "o", "t", "h", " ", "p", "r", "i", "m", "a", "r", "y", " ", "(">> \o model \o <<")", " ", "a", "n", "d", " ", "f", "a", "l", "l", "b", "a", "c", "k", " ", "(">> \o fallback_model
              \o <<")", " ", "m", "o", "d", "e", "l", "s", " ", "f", "a", "i", "l", "e", "d", ".", " ", "P", "r", "i", "m", "a", "r", "y", " ", "e", "r", "r", "o", "r", ":", " ">> \o p_error.text \o <<".", " ", "F", "a", "l", "l", "b", "a", "c", "k", " ", "e", "r", "r", "o", "r", ":", " ">> \o f_error.text,
     is_exception |-> TRUE,
     cause |-> Some(f_error)]

\* complete(), up to the call against the primary model
LLMBegin ==
    /\ llm_pc = "begin"
    /\ calls' = Append(calls, PrimaryModel(request))
    /\ llm_pc' = "primary"
    /\ UNCHANGED <<fallback_config, request, primary_error, fallback_error,
                   llm_returned, llm_raised>>
    /\ UNCHANGED notLLM

\* the call against the primary model returns
LLMPrimaryReturns ==
    /\ llm_pc = "primary"
    /\ llm_returned' = Some(CompletionResponse(PrimaryModel(request), FALSE))
    /\ llm_pc' = "returned"
    /\ UNCHANGED <<fallback_config, request, calls, primary_error, fallback_error, llm_raised>>
    /\ UNCHANGED notLLM

\* the call against the primary model raises: the handler re-raises the error,
\* or goes on to the call against the fallback model
LLMPrimaryRaises ==
    /\ llm_pc = "primary"
    /\ \E e \in LLMErrors :
          IF e.is_exception /\ TriesFallback(fallback_config, e)
          THEN /\ primary_error' = Some(e)
               /\ calls' = Append(calls, fallback_config.fallback_model)
               /\ llm_pc' = "fallback"
               /\ UNCHANGED llm_raised
          ELSE /\ primary_error' = Some(e)
               /\ llm_raised' = Some(e)
               /\ llm_pc' = "raised"
               /\ UNCHANGED calls
    /\ UNCHANGED <<fallback_config, request, fallback_error, llm_returned>>
    /\ UNCHANGED notLLM

\* the call against the fallback model returns
LLMFallbackReturns ==
    /\ llm_pc = "fallback"
    /\ llm_returned' = Some(CompletionResponse(fallback_config.fallback_model, TRUE))
    /\ llm_pc' = "returned"
    /\ UNCHANGED <<fallback_config, request, calls, primary_error, fallback_error, llm_raised>>
    /\ UNCHANGED notLLM

\* the call against the fallback model raises
LLMFallbackRaises ==
    /\ llm_pc = "fallback"
    /\ \E e \in LLMErrors :
          /\ fallback_error' = Some(e)
          /\ llm_raised' = IF e.is_exception
                           THEN Some(BothFailedError(PrimaryModel(request),
                                                     fallback_config.fallback_model,
                                                     primary_error[1], e))
                           ELSE Some(e)
    /\ llm_pc' = "raised"
    /\ UNCHANGED <<fallback_config, request, calls, primary_error, llm_returned>>
    /\ UNCHANGED notLLM

-----------------------------------------------------------------------------
(* SlideshowsPinterestWorkflow._scrape_pinterest *)

\* a pin as execute_tool hands it over: the dump of a GptMarketPinterestPin,
\* whose aspect_ratio the scraper fixes to 9:16; a text is its characters
Pin(id, title, description, image_url, image_width, image_height) ==
    [id |-> id, title |-> title, description |-> description, image_url |-> image_url,
     aspect_ratio |-> "9:16", image_width |-> image_width, image_height |-> image_height]

\* the pins the scraper returns in this model
PoolPins ==
    << Pin(<<"1">>, Some(<<"S", "u", "n", "s", "e", "t", " ", "b", "e", "a", "c", "h">>), None, <<"h", "t", "t", "p", "s", ":", "/", "/", "i", ".", "p", "i", "n", "i", "m", "g", ".", "c", "o", "m", "/", "7", "3", "6", "x", "/", "a", "1", "/", "b", "2", "/", "c", "3", ".", "j", "p", "g">>, Some(736), Some(1308)),
      Pin(<<"2">>, None, None, <<"h", "t", "t", "p", "s", ":", "/", "/", "i", ".", "p", "i", "n", "i", "m", "g", ".", "c", "o", "m", "/", "7", "3", "6", "x", "/", "a", "1", "/", "b", "2", "/", "c", "4", ".", "j", "p", "g">>, Some(736), Some(1308)),
      Pin(<<"3">>, Some(<<"F", "r", "e", "e", " ", "p", "r", "i", "n", "t", "a", "b", "l", "e", " ", "c", "h", "e", "c", "k", "l", "i", "s", "t">>), Some(<<"H", "o", "w", " ", "t", "o", " ", "p", "l", "a", "n">>), <<"h", "t", "t", "p", "s", ":", "/", "/", "i", ".", "p", "i", "n", "i", "m", "g", ".", "c", "o", "m", "/", "7", "3", "6", "x", "/", "d", "4", "/", "e", "5", "/", "f", "6", ".", "j", "p", "g">>, None, None),
      Pin(<<"4">>, Some(<<"L", "o", "s", "t", " ", "i", "m", "a", "g", "e">>), None, <<>>, Some(736), Some(1308)),
      Pin(<<"5">>, Some(<<"B", "e", "a", "c", "h", " ", "a", "t", " ", "d", "u", "s", "k">>), Some(<<"G", "o", "l", "d", "e", "n", " ", "h", "o", "u", "r">>), <<"h", "t", "t", "p", "s", ":", "/", "/", "i", ".", "p", "i", "n", "i", "m", "g", ".", "c", "o", "m", "/", "7", "3", "6", "x", "/", "a", "1", "/", "b", "2", "/", "c", "3", ".", "j", "p", "g">>, Some(736), Some(1308)),
      Pin(<<"6">>, None, None, <<"h", "t", "t", "p", "s", ":", "/", "/", "i", ".", "p", "i", "n", "i", "m", "g", ".", "c", "o", "m", "/", "7", "3", "6", "x", "/", "0", "0", "/", "8", "5", "/", "f", "8", ".", "j", "p", "g">>, Some(736), Some(1308)),
      Pin(<<>>, None, None, <<"h", "t", "t", "p", "s", ":", "/", "/", "i", ".", "p", "i", "n", "i", "m", "g", ".", "c", "o", "m", "/", "7", "3", "6", "x", "/", "0", "7", "/", "1", "8", "/", "2", "9", ".", "j", "p", "g">>, Some(500), Some(700)) >>
PinPool == { PoolPins[i] : i \in DOMAIN PoolPins }

\* the 'pins' lists a scrape returns in this model
PinLists ==
    { <<>>,
      << PoolPins[1] >>,
      << PoolPins[5], PoolPins[2] >>,
      << PoolPins[6] >> }

\* how the task of one query settles: run_activity raised (the activity failed
\* for good), or execute_tool returned an ExecuteToolOutput
Raised(text) == [kind |-> "exception", text |-> text]
ToolOutput(success, output, error) ==
    [kind |-> "result", success |-> success, output |-> output, error |-> error]

Outcomes ==
    { Raised("Activity task failed") }
    \cup { ToolOutput(FALSE, None, Some("Request timed out")) }
    \cup { ToolOutput(TRUE, Some(pins), None) : pins \in PinLists }

\* a run of 5 queries: the scrapes of the first 3 return 5 pins each when they
\* succeed (2 of the 15 pins repeat the url of a pin of an earlier query), the
\* scrapes of the last 2 fail
ScenarioQueries == <<11, 12, 13, 14, 15>>

ScenarioPins(query) ==
    CASE query = 11 ->
      << Pin(<<"a", "0">>, None, None, <<"h", "t", "t", "p", "s", ":", "/", "/", "i", ".", "p", "i", "n", "i", "m", "g", ".", "c", "o", "m", "/", "2", "3", "6", "x", "/", "5", "a", "/", "5", "b", "/", "t", "1", ".", "j", "p", "g">>, Some(736), Some(1308)),
         Pin(<<"a", "1">>, None, None, <<"h", "t", "t", "p", "s", ":", "/", "/", "i", ".", "p", "i", "n", "i", "m", "g", ".", "c", "o", "m", "/", "4", "7", "4", "x", "/", "5", "a", "/", "5", "b", "/", "t", "1", ".", "j", "p", "g">>, Some(736), Some(1308)),
         Pin(<<"a", "2">>, None, None, <<"h", "t", "t", "p", "s", ":", "/", "/", "i", ".", "p", "i", "n", "i", "m", "g", ".", "c", "o", "m", "/", "5", "6", "4", "x", "/", "5", "a", "/", "5", "b", "/", "t", "1", ".", "j", "p", "g">>, Some(736), Some(1308)),
         Pin(<<"a", "3">>, None, None, <<"h", "t", "t", "p", "s", ":", "/", "/", "i", ".", "p", "i", "n", "i", "m", "g", ".", "c", "o", "m", "/", "7", "3", "6", "x", "/", "5", "a", "/", "5", "b", "/", "t", "1", ".", "j", "p", "g">>, Some(736), Some(1308)),
         Pin(<<"a", "4">>, None, None, <<"h", "t", "t", "p", "s", ":", "/", "/", "i", ".", "p", "i", "n", "i", "m", "g", ".", "c", "o", "m", "/", "o", "r", "i", "g", "i", "n", "a", "l", "s", "/", "5", "a", "/", "5", "b", "/", "t", "1", ".", "j", "p", "g">>, Some(736), Some(1308)) >>
      [] query = 12 ->
      << Pin(<<"b", "0">>, None, None, <<"h", "t", "t", "p", "s", ":", "/", "/", "i", ".", "p", "i", "n", "i", "m", "g", ".", "c", "o", "m", "/", "2", "3", "6", "x", "/", "6", "a", "/", "6", "b", "/", "t", "2", ".", "j", "p", "g">>, Some(736), Some(1308)),
         Pin(<<"b", "1">>, None, None, <<"h", "t", "t", "p", "s", ":", "/", "/", "i", ".", "p", "i", "n", "i", "m", "g", ".", "c", "o", "m", "/", "4", "7", "4", "x", "/", "6", "a", "/", "6", "b", "/", "t", "2", ".", "j", "p", "g">>, Some(736), Some(1308)),
         Pin(<<"b", "4">>, None, None, <<"h", "t", "t", "p", "s", ":", "/", "/", "i", ".", "p", "i", "n", "i", "m", "g", ".", "c", "o", "m", "/", "2", "3", "6", "x", "/", "5", "a", "/", "5", "b", "/", "t", "1", ".", "j", "p", "g">>, Some(736), Some(1308)),
         Pin(<<"b", "2">>, None, None, <<"h", "t", "t", "p", "s", ":", "/", "/", "i", ".", "p", "i", "n", "i", "m", "g", ".", "c", "o", "m", "/", "5", "6", "4", "x", "/", "6", "a", "/", "6", "b", "/", "t", "2", ".", "j", "p", "g">>, Some(736), Some(1308)),
         Pin(<<"b", "3">>, None, None, <<"h", "t", "t", "p", "s", ":", "/", "/", "i", ".", "p", "i", "n", "i", "m", "g", ".", "c", "o", "m", "/", "7", "3", "6", "x", "/", "6", "a", "/", "6", "b", "/", "t", "2", ".", "j", "p", "g">>, Some(736), Some(1308)) >>
      [] query = 13 ->
      << Pin(<<"c", "0">>, None, None, <<"h", "t", "t", "p", "s", ":", "/", "/", "i", ".", "p", "i", "n", "i", "m", "g", ".", "c", "o", "m", "/", "o", "r", "i", "g", "i", "n", "a", "l", "s", "/", "6", "a", "/", "6", "b", "/", "t", "2", ".", "j", "p", "g">>, Some(736), Some(1308)),
         Pin(<<"c", "1">>, None, None, <<"h", "t", "t", "p", "s", ":", "/", "/", "i", ".", "p", "i", "n", "i", "m", "g", ".", "c", "o", "m", "/", "2", "3", "6", "x", "/", "7", "a", "/", "7", "b", "/", "t", "3", ".", "j", "p", "g">>, Some(736), Some(1308)),
         Pin(<<"c", "2">>, None, None, <<"h", "t", "t", "p", "s", ":", "/", "/", "i", ".", "p", "i", "n", "i", "m", "g", ".", "c", "o", "m", "/", "4", "7", "4", "x", "/", "7", "a", "/", "7", "b", "/", "t", "3", ".", "j", "p", "g">>, Some(736), Some(1308)),
         Pin(<<"c", "4">>, None, None, <<"h", "t", "t", "p", "s", ":", "/", "/", "i", ".", "p", "i", "n", "i", "m", "g", ".", "c", "o", "m", "/", "4", "7", "4", "x", "/", "6", "a", "/", "6", "b", "/", "t", "2", ".", "j", "p", "g">>, Some(736), Some(1308)),
         Pin(<<"c", "3">>, None, None, <<"h", "t", "t", "p", "s", ":", "/", "/", "i", ".", "p", "i", "n", "i", "m", "g", ".", "c", "o", "m", "/", "5", "6", "4", "x", "/", "7", "a", "/", "7", "b", "/", "t", "3", ".", "j", "p", "g">>, Some(736), Some(1308)) >>

\* how the task of this query can settle
OutcomesOf(query) ==
    IF query \in {11, 12, 13}
    THEN { Raised("Activity task failed"), ToolOutput(TRUE, Some(ScenarioPins(query)), None) }
    ELSE IF query \in {14, 15}
         THEN { Raised("Activity task failed"),
                ToolOutput(FALSE, None, Some("Request timed out")) }
         ELSE Outcomes

\* the queries _generate_queries hands over: 1 to MaxQueries of them
QueryLists == { [i \in 1..n |-> i] : n \in 1..MaxQueries }

\* f'Query "{queries[i]}": {result}'
ErrorEntry(query, text) == [query |-> query, error |-> text]

RECURSIVE CollectPins_settled(_, _)
CollectPins_settled(res, n) ==
    IF n = 0 THEN <<>>
    ELSE LET r == res[settle_order[n]][1] IN
         IF r.kind = "exception" THEN CollectPins_settled(res, n - 1)
         ELSE IF ~r.success THEN CollectPins_settled(res, n - 1)
         ELSE IF r.output # None THEN CollectPins_settled(res, n - 1) \o r.output[1]
         ELSE CollectPins_settled(res, n - 1)

RECURSIVE CollectPins_mut(_, _)
CollectPins_mut(res, n) ==
    IF n = 0 THEN <<>>
    ELSE LET r == res[n][1] IN
         IF r.kind = "exception" THEN CollectPins_mut(res, n - 1)
         ELSE IF ~r.success THEN CollectPins_mut(res, n - 1)
         ELSE IF r.output # None THEN r.output[1]
         ELSE CollectPins_mut(res, n - 1)

RECURSIVE CollectPins(_, _)
\* the loop over results: all_pins after the first n results
CollectPins(res, n) ==
    IF n = 0 THEN <<>>
    ELSE LET r == res[n][1] IN
         IF r.kind = "exception" THEN CollectPins(res, n - 1)
         ELSE IF ~r.success THEN CollectPins(res, n - 1)
         ELSE IF r.output # None THEN CollectPins(res, n - 1) \o r.output[1]
         ELSE CollectPins(res, n - 1)

RECURSIVE CollectErrors(_, _, _)
\* the loop over results: errors after the first n results
CollectErrors(qs, res, n) ==
    IF n = 0 THEN <<>>
    ELSE LET r == res[n][1] IN
         IF r.kind = "exception"
         THEN Append(CollectErrors(qs, res, n - 1), ErrorEntry(qs[n], r.text))
         ELSE IF ~r.success
              THEN Append(CollectErrors(qs, res, n - 1), ErrorEntry(qs[n], r.error[1]))
              ELSE CollectErrors(qs, res, n - 1)

\* "if not all_pins and errors"
AllFailedRaise(pins, errs) == pins = <<>> /\ errs # <<>>

\* one task per query is created; asyncio.gather starts them all and waits
ScrapeLaunch ==
    /\ scrape_pc = "launch"
    /\ results' = [i \in DOMAIN queries |-> None]
    /\ scrape_pc' = "gather"
    /\ settle_order' = <<>>
    /\ UNCHANGED <<queries, all_pins, errors, scrape_returned, scrape_raised>>
    /\ UNCHANGED notScrape

\* the task of one query settles, in any order
BranchSettles ==
    /\ scrape_pc = "gather"
    /\ \E i \in DOMAIN results :
          /\ results[i] = None
          /\ \E o \in OutcomesOf(queries[i]) :
             /\ results' = [results EXCEPT ![i] = Some(o)]
             /\ settle_order' = Append(settle_order, i)
    /\ UNCHANGED <<queries, scrape_pc, all_pins, errors, scrape_returned, scrape_raised>>
    /\ UNCHANGED notScrape

ScrapeCollect_mut ==
    /\ scrape_pc = "gather"
    /\ \E i \in DOMAIN results : results[i] # None /\ results[i][1].kind = "exception"
    /\ scrape_raised' = Some([cls |-> "ActivityError", text |-> "Activity task failed",
                              joined |-> <<>>, non_retryable |-> FALSE])
    /\ scrape_pc' = "raised"
    /\ UNCHANGED <<queries, results, all_pins, errors, scrape_returned, settle_order>>
    /\ UNCHANGED notScrape

\* gather(return_exceptions=True) returns once every task has settled; the
\* results are collected in the order of the queries
ScrapeCollect ==
    /\ scrape_pc = "gather"
    /\ \A i \in DOMAIN results : results[i] # None
    /\ LET pins == CollectPins(results, Len(results))
           errs == CollectErrors(queries, results, Len(results))
       IN  /\ all_pins' = pins
           /\ errors' = errs
           /\ IF AllFailedRaise(pins, errs)
              THEN /\ scrape_raised' = Some([cls |-> "ApplicationError",
                                             text |-> "All Pinterest queries failed: ",
                                             joined |-> errs,
                                             non_retryable |-> TRUE])
                   /\ scrape_pc' = "raised"
                   /\ UNCHANGED scrape_returned
              ELSE /\ scrape_returned' = Some(pins)
                   /\ scrape_pc' = "returned"
                   /\ UNCHANGED scrape_raised
    /\ UNCHANGED <<queries, results, settle_order>>
    /\ UNCHANGED notScrape

-----------------------------------------------------------------------------
(* SlideshowsPinterestWorkflow._select_best_images *)

\* _NUM_IMAGES_TO_RETURN
NUM_IMAGES_TO_RETURN == 25

\* _UNWANTED_IMAGE_KEYWORDS
UNWANTED_IMAGE_KEYWORDS ==
    { <<"i", "n", "f", "o", "g", "r", "a", "p", "h", "i", "c">>,
      <<"t", "e", "m", "p", "l", "a", "t", "e">>,
      <<"p", "r", "i", "n", "t", "a", "b", "l", "e">>,
      <<"c", "h", "e", "c", "k", "l", "i", "s", "t">>,
      <<"w", "o", "r", "k", "s", "h", "e", "e", "t">>,
      <<"q", "u", "o", "t", "e">>,
      <<"q", "u", "o", "t", "e", "s">>,
      <<"t", "i", "p", "s">>,
      <<"t", "u", "t", "o", "r", "i", "a", "l">>,
      <<"h", "o", "w", " ", "t", "o">>,
      <<"h", "o", "w", "t", "o">>,
      <<"s", "t", "e", "p", " ", "b", "y", " ", "s", "t", "e", "p">>,
      <<"g", "u", "i", "d", "e">>,
      <<"c", "h", "e", "a", "t", " ", "s", "h", "e", "e", "t">>,
      <<"c", "h", "e", "a", "t", "s", "h", "e", "e", "t">>,
      <<"r", "e", "c", "i", "p", "e">>,
      <<"i", "n", "g", "r", "e", "d", "i", "e", "n", "t", "s">>,
      <<"i", "n", "s", "t", "r", "u", "c", "t", "i", "o", "n", "s">>,
      <<"d", "i", "y">>,
      <<"d", "o", "w", "n", "l", "o", "a", "d">>,
      <<"f", "r", "e", "e">>,
      <<"p", "d", "f">>,
      <<"e", "b", "o", "o", "k">>,
      <<"c", "h", "a", "r", "t">>,
      <<"d", "i", "a", "g", "r", "a", "m">>,
      <<"g", "r", "a", "p", "h">>,
      <<"s", "t", "a", "t", "i", "s", "t", "i", "c", "s">>,
      <<"l", "o", "g", "o">>,
      <<"w", "a", "t", "e", "r", "m", "a", "r", "k">>,
      <<"s", "t", "o", "c", "k">>,
      <<"s", "h", "u", "t", "t", "e", "r", "s", "t", "o", "c", "k">>,
      <<"g", "e", "t", "t", "y">>,
      <<"a", "d", "o", "b", "e", " ", "s", "t", "o", "c", "k">>,
      <<"p", "i", "n", " ", "t", "h", "i", "s">>,
      <<"s", "a", "v", "e", " ", "t", "h", "i", "s">>,
      <<"c", "l", "i", "c", "k">>,
      <<"l", "i", "n", "k", " ", "i", "n", " ", "b", "i", "o">>,
      <<"c", "o", "l", "l", "a", "g", "e">>,
      <<"g", "r", "i", "d">>,
      <<"m", "o", "o", "d", " ", "b", "o", "a", "r", "d">>,
      <<"m", "o", "o", "d", "b", "o", "a", "r", "d">>,
      <<"c", "o", "l", "l", "e", "c", "t", "i", "o", "n">>,
      <<"c", "o", "m", "p", "i", "l", "a", "t", "i", "o", "n">>,
      <<"r", "o", "u", "n", "d", "u", "p">>,
      <<"r", "o", "u", "n", "d", " ", "u", "p">>,
      <<"b", "e", "s", "t", " ", "o", "f">>,
      <<"3", "x", "3">>,
      <<"2", "x", "2">>,
      <<"4", "x", "4">>,
      <<"p", "h", "o", "t", "o", " ", "d", "u", "m", "p">>,
      <<"p", "h", "o", "t", "o", "d", "u", "m", "p">> }

\* hashlib.md5(text.encode()).hexdigest(), on the texts that are hashed here
md5_hexdigest(text) ==
    CASE text = <<"a", "1", "-", "b", "2", "-", "c", "3", ".", "j", "p", "g", ":", "7", "3", "6", ":", "1", "3", "0", "8">> ->
           <<"6", "f", "9", "3", "1", "e", "c", "c", "9", "6", "6", "1", "a", "a", "1", "1", "d", "1", "b", "5", "7", "5", "5", "7", "d", "a", "8", "3", "e", "f", "1", "e">>
      [] text = <<"a", "1", "-", "b", "2", "-", "c", "4", ".", "j", "p", "g", ":", "7", "3", "6", ":", "1", "3", "0", "8">> ->
           <<"d", "6", "9", "0", "e", "a", "0", "2", "1", "7", "a", "9", "1", "3", "f", "f", "0", "c", "5", "8", "a", "b", "7", "7", "1", "1", "3", "a", "c", "4", "c", "a">>
      [] text = <<"d", "4", "-", "e", "5", "-", "f", "6", ".", "j", "p", "g", ":", "0", ":", "0">> ->
           <<"a", "f", "c", "b", "b", "4", "c", "9", "e", "1", "1", "4", "2", "5", "f", "6", "1", "6", "1", "2", "d", "4", "9", "4", "a", "2", "7", "0", "8", "8", "1", "8">>
      [] text = <<":", "7", "3", "6", ":", "1", "3", "0", "8">> ->
           <<"6", "3", "3", "6", "3", "5", "4", "e", "4", "6", "e", "3", "a", "9", "3", "2", "3", "c", "8", "1", "d", "f", "4", "9", "e", "0", "6", "6", "6", "d", "f", "6">>
      [] text = <<"0", "0", "-", "8", "5", "-", "f", "8", ".", "j", "p", "g", ":", "7", "3", "6", ":", "1", "3", "0", "8">> ->
           <<"6", "f", "9", "3", "0", "a", "6", "f", "c", "6", "0", "2", "4", "c", "7", "4", "7", "f", "6", "2", "a", "4", "0", "2", "4", "4", "4", "f", "1", "a", "5", "0">>
      [] text = <<"0", "7", "-", "1", "8", "-", "2", "9", ".", "j", "p", "g", ":", "5", "0", "0", ":", "7", "0", "0">> ->
           <<"b", "3", "3", "5", "0", "4", "7", "1", "e", "3", "1", "3", "9", "0", "8", "0", "0", "7", "1", "2", "1", "d", "b", "f", "8", "8", "e", "c", "8", "6", "a", "8">>
      [] text = <<"e", "0", "-", "e", "0", "-", "e", "0", ".", "j", "p", "g", ":", "7", "3", "6", ":", "1", "3", "0", "8">> ->
           <<"c", "4", "5", "d", "e", "8", "7", "4", "d", "a", "c", "2", "2", "3", "1", "9", "c", "c", "e", "e", "3", "0", "f", "4", "c", "a", "1", "0", "5", "3", "4", "b">>
      [] text = <<"e", "0", "-", "e", "0", "-", "e", "6", ".", "j", "p", "g", ":", "7", "3", "6", ":", "1", "3", "0", "8">> ->
           <<"2", "a", "f", "5", "9", "b", "e", "a", "5", "0", "c", "7", "2", "5", "6", "b", "1", "6", "e", "9", "6", "6", "a", "7", "8", "0", "6", "7", "3", "4", "7", "0">>
      [] text = <<"e", "0", "-", "e", "0", "-", "e", "7", ".", "j", "p", "g", ":", "1", "0", "0", "0", ":", "1", "5", "0", "0">> ->
           <<"3", "7", "9", "e", "d", "a", "2", "7", "6", "8", "6", "6", "3", "d", "3", "b", "3", "e", "a", "e", "2", "d", "6", "d", "0", "8", "d", "8", "8", "b", "6", "d">>
      [] text = <<"e", "0", "-", "e", "0", "-", "e", "8", ".", "j", "p", "g", ":", "5", "0", "0", ":", "7", "0", "0">> ->
           <<"1", "4", "f", "6", "8", "9", "8", "d", "5", "f", "7", "4", "4", "0", "1", "0", "2", "c", "2", "4", "2", "4", "5", "c", "7", "8", "4", "d", "6", "a", "3", "5">>
      [] text = <<"0", "0", "-", "0", "0", "-", "0", "0", ".", "j", "p", "g", ":", "7", "3", "6", ":", "1", "3", "0", "8">> ->
           <<"4", "b", "a", "2", "9", "6", "2", "c", "b", "0", "d", "0", "a", "1", "f", "2", "1", "b", "3", "a", "5", "8", "d", "7", "2", "f", "3", "4", "7", "6", "8", "7">>
      [] text = <<"0", "1", "-", "0", "1", "-", "0", "1", ".", "j", "p", "g", ":", "7", "3", "6", ":", "1", "3", "0", "8">> ->
           <<"1", "b", "c", "b", "6", "0", "1", "5", "2", "c", "d", "b", "6", "1", "8", "1", "8", "0", "a", "b", "9", "9", "c", "2", "7", "1", "9", "1", "4", "e", "5", "d">>
      [] text = <<"0", "2", "-", "0", "2", "-", "0", "2", ".", "j", "p", "g", ":", "7", "3", "6", ":", "1", "3", "0", "8">> ->
           <<"4", "d", "f", "7", "d", "a", "2", "4", "8", "8", "8", "3", "c", "8", "b", "7", "6", "c", "b", "c", "c", "9", "2", "3", "e", "c", "e", "3", "e", "1", "e", "1">>
      [] text = <<"0", "3", "-", "0", "3", "-", "0", "3", ".", "j", "p", "g", ":", "7", "3", "6", ":", "1", "3", "0", "8">> ->
           <<"c", "6", "6", "3", "5", "5", "d", "a", "9", "b", "1", "8", "4", "c", "1", "7", "d", "2", "0", "5", "0", "8", "2", "2", "5", "9", "6", "5", "2", "2", "2", "2">>
      [] text = <<"0", "4", "-", "0", "4", "-", "0", "4", ".", "j", "p", "g", ":", "7", "3", "6", ":", "1", "3", "0", "8">> ->
           <<"a", "1", "a", "1", "b", "7", "6", "5", "3", "d", "e", "6", "0", "3", "4", "b", "3", "7", "8", "5", "3", "7", "4", "c", "1", "b", "3", "7", "b", "6", "e", "9">>
      [] text = <<"0", "5", "-", "0", "5", "-", "0", "5", ".", "j", "p", "g", ":", "7", "3", "6", ":", "1", "3", "0", "8">> ->
           <<"1", "9", "9", "4", "d", "c", "3", "3", "f", "7", "e", "e", "5", "7", "0", "2", "8", "1", "f", "5", "3", "c", "8", "5", "8", "1", "e", "a", "3", "e", "c", "e">>
      [] text = <<"0", "6", "-", "0", "6", "-", "0", "6", ".", "j", "p", "g", ":", "7", "3", "6", ":", "1", "3", "0", "8">> ->
           <<"3", "3", "c", "d", "4", "8", "0", "8", "f", "2", "2", "4", "f", "a", "d", "c", "9", "b", "3", "b", "d", "f", "1", "a", "2", "2", "1", "a", "c", "c", "1", "0">>
      [] text = <<"0", "7", "-", "0", "7", "-", "0", "7", ".", "j", "p", "g", ":", "7", "3", "6", ":", "1", "3", "0", "8">> ->
           <<"0", "6", "8", "d", "0", "c", "6", "4", "e", "1", "7", "3", "8", "4", "e", "5", "6", "9", "5", "7", "9", "1", "4", "a", "8", "e", "9", "2", "6", "4", "7", "6">>
      [] text = <<"0", "8", "-", "0", "8", "-", "0", "8", ".", "j", "p", "g", ":", "7", "3", "6", ":", "1", "3", "0", "8">> ->
           <<"b", "1", "c", "8", "2", "5", "2", "1", "3", "9", "3", "a", "9", "b", "b", "c", "e", "c", "f", "4", "9", "e", "6", "c", "1", "f", "0", "d", "2", "c", "0", "4">>
      [] text = <<"0", "9", "-", "0", "9", "-", "0", "9", ".", "j", "p", "g", ":", "7", "3", "6", ":", "1", "3", "0", "8">> ->
           <<"5", "3", "e", "8", "f", "4", "f", "8", "4", "1", "a", "9", "b", "1", "4", "2", "8", "c", "2", "d", "3", "e", "9", "5", "2", "a", "b", "3", "7", "4", "3", "e">>
      [] text = <<"0", "a", "-", "0", "a", "-", "0", "a", ".", "j", "p", "g", ":", "7", "3", "6", ":", "1", "3", "0", "8">> ->
           <<"b", "e", "e", "6", "6", "a", "7", "4", "a", "a", "2", "a", "6", "0", "5", "c", "e", "1", "5", "6", "9", "f", "7", "b", "a", "b", "8", "0", "4", "f", "f", "0">>
      [] text = <<"0", "b", "-", "0", "b", "-", "0", "b", ".", "j", "p", "g", ":", "7", "3", "6", ":", "1", "3", "0", "8">> ->
           <<"c", "6", "7", "3", "6", "6", "a", "4", "c", "3", "0", "4", "0", "e", "f", "d", "0", "a", "d", "3", "a", "d", "f", "f", "b", "9", "9", "f", "5", "e", "a", "0">>
      [] text = <<"0", "c", "-", "0", "c", "-", "0", "c", ".", "j", "p", "g", ":", "7", "3", "6", ":", "1", "3", "0", "8">> ->
           <<"7", "d", "b", "7", "6", "8", "5", "f", "6", "7", "4", "d", "a", "5", "6", "3", "a", "0", "f", "d", "8", "0", "b", "1", "9", "f", "0", "2", "1", "9", "d", "c">>
      [] text = <<"0", "d", "-", "0", "d", "-", "0", "d", ".", "j", "p", "g", ":", "7", "3", "6", ":", "1", "3", "0", "8">> ->
           <<"b", "3", "7", "e", "a", "e", "b", "7", "d", "2", "8", "9", "8", "9", "a", "9", "a", "d", "9", "3", "2", "3", "9", "d", "f", "2", "5", "e", "e", "0", "0", "5">>
      [] text = <<"0", "e", "-", "0", "e", "-", "0", "e", ".", "j", "p", "g", ":", "7", "3", "6", ":", "1", "3", "0", "8">> ->
           <<"2", "2", "a", "4", "d", "1", "d", "5", "a", "d", "5", "e", "6", "2", "d", "d", "1", "9", "1", "7", "7", "0", "e", "9", "0", "e", "2", "1", "b", "3", "3", "6">>
      [] text = <<"0", "f", "-", "0", "f", "-", "0", "f", ".", "j", "p", "g", ":", "7", "3", "6", ":", "1", "3", "0", "8">> ->
           <<"c", "e", "8", "2", "c", "f", "1", "2", "f", "3", "f", "5", "e", "4", "9", "2", "7", "6", "7", "e", "5", "9", "6", "e", "2", "6", "4", "b", "f", "a", "2", "7">>
      [] text = <<"1", "0", "-", "1", "0", "-", "1", "0", ".", "j", "p", "g", ":", "7", "3", "6", ":", "1", "3", "0", "8">> ->
           <<"b", "4", "1", "9", "1", "6", "7", "f", "9", "0", "9", "e", "7", "8", "a", "9", "6", "6", "e", "2", "d", "5", "d", "4", "e", "5", "4", "b", "9", "8", "e", "1">>
      [] text = <<"1", "1", "-", "1", "1", "-", "1", "1", ".", "j", "p", "g", ":", "7", "3", "6", ":", "1", "3", "0", "8">> ->
           <<"2", "1", "d", "5", "4", "f", "6", "7", "8", "e", "6", "f", "d", "5", "d", "3", "c", "c", "f", "1", "a", "5", "5", "6", "2", "9", "f", "c", "8", "b", "8", "8">>
      [] text = <<"1", "2", "-", "1", "2", "-", "1", "2", ".", "j", "p", "g", ":", "7", "3", "6", ":", "1", "3", "0", "8">> ->
           <<"c", "6", "a", "b", "5", "0", "6", "f", "e", "8", "e", "0", "5", "2", "1", "5", "9", "d", "6", "8", "2", "6", "5", "c", "3", "e", "2", "c", "f", "a", "8", "6">>
      [] text = <<"1", "3", "-", "1", "3", "-", "1", "3", ".", "j", "p", "g", ":", "7", "3", "6", ":", "1", "3", "0", "8">> ->
           <<"7", "b", "0", "f", "3", "7", "c", "a", "0", "4", "7", "7", "f", "8", "e", "3", "d", "9", "7", "e", "3", "6", "8", "c", "2", "7", "3", "3", "3", "4", "d", "e">>
      [] text = <<"1", "4", "-", "1", "4", "-", "1", "4", ".", "j", "p", "g", ":", "7", "3", "6", ":", "1", "3", "0", "8">> ->
           <<"5", "e", "4", "a", "d", "4", "1", "b", "6", "0", "3", "4", "a", "c", "9", "2", "1", "8", "7", "2", "2", "c", "e", "0", "4", "e", "d", "1", "9", "3", "7", "c">>
      [] text = <<"1", "5", "-", "1", "5", "-", "1", "5", ".", "j", "p", "g", ":", "7", "3", "6", ":", "1", "3", "0", "8">> ->
           <<"7", "5", "4", "4", "5", "6", "d", "e", "2", "6", "6", "1", "d", "e", "d", "d", "e", "7", "0", "d", "3", "7", "8", "7", "5", "4", "f", "d", "d", "3", "3", "a">>
      [] text = <<"1", "6", "-", "1", "6", "-", "1", "6", ".", "j", "p", "g", ":", "7", "3", "6", ":", "1", "3", "0", "8">> ->
           <<"e", "5", "9", "7", "b", "a", "e", "6", "b", "3", "8", "4", "4", "0", "8", "4", "4", "6", "c", "5", "8", "5", "c", "9", "c", "4", "6", "c", "4", "d", "f", "1">>
      [] text = <<"1", "7", "-", "1", "7", "-", "1", "7", ".", "j", "p", "g", ":", "7", "3", "6", ":", "1", "3", "0", "8">> ->
           <<"2", "4", "1", "b", "1", "9", "0", "b", "d", "9", "b", "4", "8", "5", "8", "9", "9", "7", "0", "3", "0", "b", "2", "8", "d", "2", "9", "4", "8", "6", "7", "e">>
      [] text = <<"1", "8", "-", "1", "8", "-", "1", "8", ".", "j", "p", "g", ":", "7", "3", "6", ":", "1", "3", "0", "8">> ->
           <<"d", "9", "8", "a", "3", "7", "4", "8", "5", "d", "d", "f", "c", "f", "0", "3", "e", "0", "b", "2", "e", "b", "f", "2", "9", "c", "2", "e", "9", "6", "0", "b">>
      [] text = <<"1", "9", "-", "1", "9", "-", "1", "9", ".", "j", "p", "g", ":", "7", "3", "6", ":", "1", "3", "0", "8">> ->
           <<"2", "7", "0", "2", "4", "1", "9", "a", "5", "1", "2", "2", "1", "9", "8", "5", "a", "d", "1", "7", "7", "6", "4", "e", "3", "4", "9", "c", "2", "f", "1", "0">>
      [] text = <<"1", "a", "-", "1", "a", "-", "1", "a", ".", "j", "p", "g", ":", "7", "3", "6", ":", "1", "3", "0", "8">> ->
           <<"f", "7", "b", "3", "9", "b", "7", "0", "6", "1", "f", "d", "b", "1", "8", "6", "9", "1", "6", "1", "d", "3", "8", "b", "f", "5", "4", "7", "4", "8", "e", "7">>
      [] text = <<"5", "a", "-", "5", "b", "-", "t", "1", ".", "j", "p", "g", ":", "7", "3", "6", ":", "1", "3", "0", "8">> ->
           <<"e", "c", "c", "1", "4", "7", "a", "6", "4", "2", "f", "0", "4", "4", "c", "9", "6", "1", "5", "7", "a", "4", "a", "c", "f", "d", "9", "d", "e", "4", "9", "8">>
      [] text = <<"6", "a", "-", "6", "b", "-", "t", "2", ".", "j", "p", "g", ":", "7", "3", "6", ":", "1", "3", "0", "8">> ->
           <<"5", "c", "c", "1", "e", "d", "9", "b", "f", "9", "e", "6", "9", "f", "a", "8", "f", "0", "9", "a", "b", "0", "7", "8", "2", "3", "0", "2", "b", "4", "5", "f">>
      [] text = <<"7", "a", "-", "7", "b", "-", "t", "3", ".", "j", "p", "g", ":", "7", "3", "6", ":", "1", "3", "0", "8">> ->
           <<"c", "c", "f", "5", "f", "e", "8", "6", "8", "4", "b", "0", "a", "4", "f", "d", "f", "e", "2", "7", "b", "4", "6", "e", "7", "a", "5", "9", "2", "b", "d", "f">>

\* 5 candidates that share one url among 3 with urls of their own
DuplicatesList ==
    << Pin(<<"e", "1">>, None, None, <<"h", "t", "t", "p", "s", ":", "/", "/", "i", ".", "p", "i", "n", "i", "m", "g", ".", "c", "o", "m", "/", "7", "3", "6", "x", "/", "e", "0", "/", "e", "0", "/", "e", "0", ".", "j", "p", "g">>, Some(736), Some(1308)),
       Pin(<<"e", "6">>, None, None, <<"h", "t", "t", "p", "s", ":", "/", "/", "i", ".", "p", "i", "n", "i", "m", "g", ".", "c", "o", "m", "/", "7", "3", "6", "x", "/", "e", "0", "/", "e", "0", "/", "e", "6", ".", "j", "p", "g">>, Some(736), Some(1308)),
       Pin(<<"e", "2">>, None, None, <<"h", "t", "t", "p", "s", ":", "/", "/", "i", ".", "p", "i", "n", "i", "m", "g", ".", "c", "o", "m", "/", "7", "3", "6", "x", "/", "e", "0", "/", "e", "0", "/", "e", "0", ".", "j", "p", "g">>, Some(736), Some(1308)),
       Pin(<<"e", "3">>, None, None, <<"h", "t", "t", "p", "s", ":", "/", "/", "i", ".", "p", "i", "n", "i", "m", "g", ".", "c", "o", "m", "/", "7", "3", "6", "x", "/", "e", "0", "/", "e", "0", "/", "e", "0", ".", "j", "p", "g">>, Some(736), Some(1308)),
       Pin(<<"e", "7">>, Some(<<"F", "o", "r", "e", "s", "t", " ", "p", "a", "t", "h">>), None, <<"h", "t", "t", "p", "s", ":", "/", "/", "i", ".", "p", "i", "n", "i", "m", "g", ".", "c", "o", "m", "/", "7", "3", "6", "x", "/", "e", "0", "/", "e", "0", "/", "e", "7", ".", "j", "p", "g">>, Some(1000), Some(1500)),
       Pin(<<"e", "4">>, None, None, <<"h", "t", "t", "p", "s", ":", "/", "/", "i", ".", "p", "i", "n", "i", "m", "g", ".", "c", "o", "m", "/", "7", "3", "6", "x", "/", "e", "0", "/", "e", "0", "/", "e", "0", ".", "j", "p", "g">>, Some(736), Some(1308)),
       Pin(<<"e", "8">>, None, None, <<"h", "t", "t", "p", "s", ":", "/", "/", "i", ".", "p", "i", "n", "i", "m", "g", ".", "c", "o", "m", "/", "7", "3", "6", "x", "/", "e", "0", "/", "e", "0", "/", "e", "8", ".", "j", "p", "g">>, Some(500), Some(700)),
       Pin(<<"e", "5">>, None, None, <<"h", "t", "t", "p", "s", ":", "/", "/", "i", ".", "p", "i", "n", "i", "m", "g", ".", "c", "o", "m", "/", "7", "3", "6", "x", "/", "e", "0", "/", "e", "0", "/", "e", "0", ".", "j", "p", "g">>, Some(736), Some(1308)) >>

\* 27 candidates with pairwise different urls and fingerprints
ManyPinsList ==
    << Pin(<<"m", "0">>, None, None, <<"h", "t", "t", "p", "s", ":", "/", "/", "i", ".", "p", "i", "n", "i", "m", "g", ".", "c", "o", "m", "/", "7", "3", "6", "x", "/", "0", "0", "/", "0", "0", "/", "0", "0", ".", "j", "p", "g">>, Some(736), Some(1308)),
       Pin(<<"m", "1">>, None, None, <<"h", "t", "t", "p", "s", ":", "/", "/", "i", ".", "p", "i", "n", "i", "m", "g", ".", "c", "o", "m", "/", "7", "3", "6", "x", "/", "0", "1", "/", "0", "1", "/", "0", "1", ".", "j", "p", "g">>, Some(736), Some(1308)),
       Pin(<<"m", "2">>, None, None, <<"h", "t", "t", "p", "s", ":", "/", "/", "i", ".", "p", "i", "n", "i", "m", "g", ".", "c", "o", "m", "/", "7", "3", "6", "x", "/", "0", "2", "/", "0", "2", "/", "0", "2", ".", "j", "p", "g">>, Some(736), Some(1308)),
       Pin(<<"m", "3">>, None, None, <<"h", "t", "t", "p", "s", ":", "/", "/", "i", ".", "p", "i", "n", "i", "m", "g", ".", "c", "o", "m", "/", "7", "3", "6", "x", "/", "0", "3", "/", "0", "3", "/", "0", "3", ".", "j", "p", "g">>, Some(736), Some(1308)),
       Pin(<<"m", "4">>, None, None, <<"h", "t", "t", "p", "s", ":", "/", "/", "i", ".", "p", "i", "n", "i", "m", "g", ".", "c", "o", "m", "/", "7", "3", "6", "x", "/", "0", "4", "/", "0", "4", "/", "0", "4", ".", "j", "p", "g">>, Some(736), Some(1308)),
       Pin(<<"m", "5">>, None, None, <<"h", "t", "t", "p", "s", ":", "/", "/", "i", ".", "p", "i", "n", "i", "m", "g", ".", "c", "o", "m", "/", "7", "3", "6", "x", "/", "0", "5", "/", "0", "5", "/", "0", "5", ".", "j", "p", "g">>, Some(736), Some(1308)),
       Pin(<<"m", "6">>, None, None, <<"h", "t", "t", "p", "s", ":", "/", "/", "i", ".", "p", "i", "n", "i", "m", "g", ".", "c", "o", "m", "/", "7", "3", "6", "x", "/", "0", "6", "/", "0", "6", "/", "0", "6", ".", "j", "p", "g">>, Some(736), Some(1308)),
       Pin(<<"m", "7">>, None, None, <<"h", "t", "t", "p", "s", ":", "/", "/", "i", ".", "p", "i", "n", "i", "m", "g", ".", "c", "o", "m", "/", "7", "3", "6", "x", "/", "0", "7", "/", "0", "7", "/", "0", "7", ".", "j", "p", "g">>, Some(736), Some(1308)),
       Pin(<<"m", "8">>, None, None, <<"h", "t", "t", "p", "s", ":", "/", "/", "i", ".", "p", "i", "n", "i", "m", "g", ".", "c", "o", "m", "/", "7", "3", "6", "x", "/", "0", "8", "/", "0", "8", "/", "0", "8", ".", "j", "p", "g">>, Some(736), Some(1308)),
       Pin(<<"m", "9">>, None, None, <<"h", "t", "t", "p", "s", ":", "/", "/", "i", ".", "p", "i", "n", "i", "m", "g", ".", "c", "o", "m", "/", "7", "3", "6", "x", "/", "0", "9", "/", "0", "9", "/", "0", "9", ".", "j", "p", "g">>, Some(736), Some(1308)),
       Pin(<<"m", "1", "0">>, None, None, <<"h", "t", "t", "p", "s", ":", "/", "/", "i", ".", "p", "i", "n", "i", "m", "g", ".", "c", "o", "m", "/", "7", "3", "6", "x", "/", "0", "a", "/", "0", "a", "/", "0", "a", ".", "j", "p", "g">>, Some(736), Some(1308)),
       Pin(<<"m", "1", "1">>, None, None, <<"h", "t", "t", "p", "s", ":", "/", "/", "i", ".", "p", "i", "n", "i", "m", "g", ".", "c", "o", "m", "/", "7", "3", "6", "x", "/", "0", "b", "/", "0", "b", "/", "0", "b", ".", "j", "p", "g">>, Some(736), Some(1308)),
       Pin(<<"m", "1", "2">>, None, None, <<"h", "t", "t", "p", "s", ":", "/", "/", "i", ".", "p", "i", "n", "i", "m", "g", ".", "c", "o", "m", "/", "7", "3", "6", "x", "/", "0", "c", "/", "0", "c", "/", "0", "c", ".", "j", "p", "g">>, Some(736), Some(1308)),
       Pin(<<"m", "1", "3">>, None, None, <<"h", "t", "t", "p", "s", ":", "/", "/", "i", ".", "p", "i", "n", "i", "m", "g", ".", "c", "o", "m", "/", "7", "3", "6", "x", "/", "0", "d", "/", "0", "d", "/", "0", "d", ".", "j", "p", "g">>, Some(736), Some(1308)),
       Pin(<<"m", "1", "4">>, None, None, <<"h", "t", "t", "p", "s", ":", "/", "/", "i", ".", "p", "i", "n", "i", "m", "g", ".", "c", "o", "m", "/", "7", "3", "6", "x", "/", "0", "e", "/", "0", "e", "/", "0", "e", ".", "j", "p", "g">>, Some(736), Some(1308)),
       Pin(<<"m", "1", "5">>, None, None, <<"h", "t", "t", "p", "s", ":", "/", "/", "i", ".", "p", "i", "n", "i", "m", "g", ".", "c", "o", "m", "/", "7", "3", "6", "x", "/", "0", "f", "/", "0", "f", "/", "0", "f", ".", "j", "p", "g">>, Some(736), Some(1308)),
       Pin(<<"m", "1", "6">>, None, None, <<"h", "t", "t", "p", "s", ":", "/", "/", "i", ".", "p", "i", "n", "i", "m", "g", ".", "c", "o", "m", "/", "7", "3", "6", "x", "/", "1", "0", "/", "1", "0", "/", "1", "0", ".", "j", "p", "g">>, Some(736), Some(1308)),
       Pin(<<"m", "1", "7">>, None, None, <<"h", "t", "t", "p", "s", ":", "/", "/", "i", ".", "p", "i", "n", "i", "m", "g", ".", "c", "o", "m", "/", "7", "3", "6", "x", "/", "1", "1", "/", "1", "1", "/", "1", "1", ".", "j", "p", "g">>, Some(736), Some(1308)),
       Pin(<<"m", "1", "8">>, None, None, <<"h", "t", "t", "p", "s", ":", "/", "/", "i", ".", "p", "i", "n", "i", "m", "g", ".", "c", "o", "m", "/", "7", "3", "6", "x", "/", "1", "2", "/", "1", "2", "/", "1", "2", ".", "j", "p", "g">>, Some(736), Some(1308)),
       Pin(<<"m", "1", "9">>, None, None, <<"h", "t", "t", "p", "s", ":", "/", "/", "i", ".", "p", "i", "n", "i", "m", "g", ".", "c", "o", "m", "/", "7", "3", "6", "x", "/", "1", "3", "/", "1", "3", "/", "1", "3", ".", "j", "p", "g">>, Some(736), Some(1308)),
       Pin(<<"m", "2", "0">>, None, None, <<"h", "t", "t", "p", "s", ":", "/", "/", "i", ".", "p", "i", "n", "i", "m", "g", ".", "c", "o", "m", "/", "7", "3", "6", "x", "/", "1", "4", "/", "1", "4", "/", "1", "4", ".", "j", "p", "g">>, Some(736), Some(1308)),
       Pin(<<"m", "2", "1">>, None, None, <<"h", "t", "t", "p", "s", ":", "/", "/", "i", ".", "p", "i", "n", "i", "m", "g", ".", "c", "o", "m", "/", "7", "3", "6", "x", "/", "1", "5", "/", "1", "5", "/", "1", "5", ".", "j", "p", "g">>, Some(736), Some(1308)),
       Pin(<<"m", "2", "2">>, None, None, <<"h", "t", "t", "p", "s", ":", "/", "/", "i", ".", "p", "i", "n", "i", "m", "g", ".", "c", "o", "m", "/", "7", "3", "6", "x", "/", "1", "6", "/", "1", "6", "/", "1", "6", ".", "j", "p", "g">>, Some(736), Some(1308)),
       Pin(<<"m", "2", "3">>, None, None, <<"h", "t", "t", "p", "s", ":", "/", "/", "i", ".", "p", "i", "n", "i", "m", "g", ".", "c", "o", "m", "/", "7", "3", "6", "x", "/", "1", "7", "/", "1", "7", "/", "1", "7", ".", "j", "p", "g">>, Some(736), Some(1308)),
       Pin(<<"m", "2", "4">>, None, None, <<"h", "t", "t", "p", "s", ":", "/", "/", "i", ".", "p", "i", "n", "i", "m", "g", ".", "c", "o", "m", "/", "7", "3", "6", "x", "/", "1", "8", "/", "1", "8", "/", "1", "8", ".", "j", "p", "g">>, Some(736), Some(1308)),
       Pin(<<"m", "2", "5">>, None, None, <<"h", "t", "t", "p", "s", ":", "/", "/", "i", ".", "p", "i", "n", "i", "m", "g", ".", "c", "o", "m", "/", "7", "3", "6", "x", "/", "1", "9", "/", "1", "9", "/", "1", "9", ".", "j", "p", "g">>, Some(736), Some(1308)),
       Pin(<<"m", "2", "6">>, None, None, <<"h", "t", "t", "p", "s", ":", "/", "/", "i", ".", "p", "i", "n", "i", "m", "g", ".", "c", "o", "m", "/", "7", "3", "6", "x", "/", "1", "a", "/", "1", "a", "/", "1", "a", ".", "j", "p", "g">>, Some(736), Some(1308)) >>

\* "x or ''" for an Optional text, "x or 0" for an Optional number
OrEmpty(opt) == IF opt = None THEN <<>> ELSE opt[1]
OrZero(opt) == IF opt = None THEN 0 ELSE opt[1]

Min(a, b) == IF a <= b THEN a ELSE b

RECURSIVE Split(_, _)
\* s.split(sep), for a separator of one character
Split(s, sep) ==
    IF \A i \in DOMAIN s : s[i] # sep
    THEN << s >>
    ELSE LET k == CHOOSE i \in DOMAIN s : s[i] = sep /\ \A j \in 1..(i - 1) : s[j] # sep
         IN  << SubSeq(s, 1, k - 1) >> \o Split(SubSeq(s, k + 1, Len(s)), sep)

RECURSIVE Join(_, _)
\* sep.join(parts)
Join(parts, sep) ==
    IF parts = <<>> THEN <<>>
    ELSE IF Len(parts) = 1 THEN parts[1]
    ELSE parts[1] \o sep \o Join(Tail(parts), sep)

Digits == <<"0", "1", "2", "3", "4", "5", "6", "7", "8", "9">>

RECURSIVE IntToText(_)
\* f'{n}' for a number n >= 0
IntToText(n) ==
    IF n < 10 THEN << Digits[n + 1] >>
    ELSE Append(IntToText(n \div 10), Digits[(n % 10) + 1])

\* the number of points of a score counts in 1/25000 of a point, the
\* resolution score being pixels / 25000
ScoreUnit == 25000

\* _calculate_text_penalty: 50 for the first keyword found, 15 for each
\* further one, capped at 100
calculate_text_penalty(pin) ==
    LET title == Lower(OrEmpty(pin.title))
        description == Lower(OrEmpty(pin.description))
        combined_text == title \o <<" ">> \o description
        keywords_found ==
            Cardinality({ keyword \in UNWANTED_IMAGE_KEYWORDS :
                             Contains(combined_text, keyword) })
        penalty == IF keywords_found = 0 THEN 0 ELSE 50 + 15 * (keywords_found - 1)
    IN  Min(100, penalty)

\* _score_pin, in 1/25000 of a point
score_pin(pin) ==
    LET width == OrZero(pin.image_width)
        height == OrZero(pin.image_height)
        resolution == IF width # 0 /\ height # 0
                      THEN Min(40 * ScoreUnit, width * height) ELSE 0
        metadata == (IF OrEmpty(pin.title) # <<>> THEN 10 ELSE 0)
                    + (IF OrEmpty(pin.description) # <<>> THEN 10 ELSE 0)
        aspect == pin.aspect_ratio
        orientation == IF aspect = "9:16" THEN 30
                       ELSE IF aspect \in {"2:3", "3:4"} THEN 25
                       ELSE IF aspect = "1:1" THEN 15
                       ELSE IF width # 0 /\ height # 0 /\ height > width THEN 20
                       ELSE 0
        indexed == IF pin.id # <<>> THEN 10 ELSE 0
    IN  resolution
        + (metadata + orientation + indexed - calculate_text_penalty(pin)) * ScoreUnit

\* _compute_image_hash
compute_image_hash(pin) ==
    LET url == pin.image_url
        width == OrZero(pin.image_width)
        height == OrZero(pin.image_height)
        parts == Split(url, "/")
        url_parts == SubSeq(parts, IF Len(parts) > 3 THEN Len(parts) - 2 ELSE 1, Len(parts))
        hash_input == Join(url_parts, <<"-">>) \o <<":">> \o IntToText(width)
                      \o <<":">> \o IntToText(height)
    IN  SubSeq(md5_hexdigest(hash_input), 1, 8)

is_too_similar_mut(pin_hash, hashes) ==
    \E i \in DOMAIN hashes : pin_hash = hashes[i]

\* _is_too_similar
is_too_similar(pin_hash, hashes) ==
    \E i \in DOMAIN hashes : SubSeq(pin_hash, 1, 4) = SubSeq(hashes[i], 1, 4)

RECURSIVE DedupAndScore_mut(_, _)
DedupAndScore_mut(pins, n) ==
    IF n = 0 THEN <<>>
    ELSE LET prev == DedupAndScore_mut(pins, n - 1)
             image_url == pins[n].image_url
         IN  IF image_url = <<>>
             THEN prev
             ELSE Append(prev, [score |-> score_pin(pins[n]), pin |-> pins[n]])

RECURSIVE DedupAndScore(_, _)
\* the first loop of _select_best_images: scored_pins after the first n pins
\* (seen_urls is the set of the urls of scored_pins)
DedupAndScore(pins, n) ==
    IF n = 0 THEN <<>>
    ELSE LET prev == DedupAndScore(pins, n - 1)
             image_url == pins[n].image_url
         IN  IF image_url = <<>> \/ \E j \in DOMAIN prev : prev[j].pin.image_url = image_url
             THEN prev
             ELSE Append(prev, [score |-> score_pin(pins[n]), pin |-> pins[n]])

InsertDescending_mut(sorted, x) ==
    LET k == Cardinality({ i \in DOMAIN sorted : sorted[i].score > x.score })
    IN  SubSeq(sorted, 1, k) \o << x >> \o SubSeq(sorted, k + 1, Len(sorted))

\* where a stable descending sort puts x among the sorted list: behind every
\* entry whose score is not lower
InsertDescending(sorted, x) ==
    LET k == Cardinality({ i \in DOMAIN sorted : sorted[i].score >= x.score })
    IN  SubSeq(sorted, 1, k) \o << x >> \o SubSeq(sorted, k + 1, Len(sorted))

RECURSIVE SortDescending(_, _)
\* scored_pins.sort(key=lambda x: x[0], reverse=True): list.sort is stable,
\* also with reverse=True
SortDescending(scored, n) ==
    IF n = 0 THEN <<>>
    ELSE InsertDescending(SortDescending(scored, n - 1), scored[n])

\* PinterestImage(id=str(pin.get('id', '')), ...)
PinterestImage(pin) ==
    [id |-> pin.id, title |-> pin.title, description |-> pin.description,
     image_url |-> pin.image_url, aspect_ratio |-> pin.aspect_ratio,
     image_width |-> pin.image_width, image_height |-> pin.image_height]

RECURSIVE SelectDiverse(_, _)
\* the second loop of _select_best_images, after the first n entries of the
\* sorted scored_pins
SelectDiverse(scored, n) ==
    IF n = 0 THEN [selected |-> <<>>, selected_hashes |-> <<>>, skipped_similar |-> 0]
    ELSE LET prev == SelectDiverse(scored, n - 1)
             pin_hash == compute_image_hash(scored[n].pin)
         IN  IF Len(prev.selected) >= NUM_IMAGES_TO_RETURN THEN prev
             ELSE IF is_too_similar(pin_hash, prev.selected_hashes)
                  THEN [prev EXCEPT !.skipped_similar = @ + 1]
                  ELSE [prev EXCEPT !.selected = Append(@, PinterestImage(scored[n].pin)),
                                    !.selected_hashes = Append(@, pin_hash)]

\* the loop that deduplicates and scores
SelectDedup ==
    /\ sel_pc = "dedup"
    /\ scored_pins' = DedupAndScore(sel_pins, Len(sel_pins))
    /\ sel_pc' = "sort"
    /\ UNCHANGED <<sel_pins, selected, selected_hashes, skipped_similar>>
    /\ UNCHANGED notSelect

\* scored_pins.sort(...)
SelectSort ==
    /\ sel_pc = "sort"
    /\ scored_pins' = SortDescending(scored_pins, Len(scored_pins))
    /\ sel_pc' = "pick"
    /\ UNCHANGED <<sel_pins, selected, selected_hashes, skipped_similar>>
    /\ UNCHANGED notSelect

\* the loop that selects, and the return of selected
SelectPick ==
    /\ sel_pc = "pick"
    /\ LET r == SelectDiverse(scored_pins, Len(scored_pins))
       IN  /\ selected' = r.selected
           /\ selected_hashes' = r.selected_hashes
           /\ skipped_similar' = r.skipped_similar
    /\ sel_pc' = "returned"
    /\ UNCHANGED <<sel_pins, scored_pins>>
    /\ UNCHANGED notSelect

-----------------------------------------------------------------------------
(* SlideshowsPinterestWorkflow._upload_images *)

\* StorageUploadOutput.url of the upload of the i-th image: a fresh key under
\* the folder for each upload
StorageUrl(i) ==
    <<"h", "t", "t", "p", "s", ":", "/", "/", "r", "2", "/", "p", "i", "n", "t", "e", "r", "e", "s", "t", "/", "i", "m", "a", "g", "e", "s", "/">>
    \o IntToText(i) \o <<".", "j", "p", "g">>

\* how the upload of the i-th image settles: run_activity raised (the activity
\* failed for good), or upload_to_storage returned
UploadOutcomes(i) ==
    { Raised("Activity task failed"), [kind |-> "result", url |-> StorageUrl(i)] }

RECURSIVE CollectUploaded_mut(_, _, _)
CollectUploaded_mut(imgs, res, n) ==
    IF n = 0 THEN <<>>
    ELSE LET r == res[n][1] IN
         IF r.kind = "exception" THEN Append(CollectUploaded_mut(imgs, res, n - 1), imgs[n])
         ELSE Append(CollectUploaded_mut(imgs, res, n - 1),
                     [imgs[n] EXCEPT !.image_url = r.url])

RECURSIVE CollectUploaded(_, _, _)
\* the loop over results: uploaded_images after the first n results
CollectUploaded(imgs, res, n) ==
    IF n = 0 THEN <<>>
    ELSE LET r == res[n][1] IN
         IF r.kind = "exception" THEN CollectUploaded(imgs, res, n - 1)
         ELSE Append(CollectUploaded(imgs, res, n - 1),
                     [imgs[n] EXCEPT !.image_url = r.url])

\* "if not images: return images"; else one task per image is created and
\* asyncio.gather starts them all and waits
UploadLaunch ==
    /\ upload_pc = "launch"
    /\ IF up_images = <<>>
       THEN /\ upload_returned' = Some(up_images)
            /\ upload_pc' = "returned"
            /\ UNCHANGED upload_results
       ELSE /\ upload_results' = [i \in DOMAIN up_images |-> None]
            /\ upload_pc' = "gather"
            /\ UNCHANGED upload_returned
    /\ UNCHANGED <<up_images, images>>
    /\ UNCHANGED notUpload

\* the upload of one image settles, in any order
UploadSettles ==
    /\ upload_pc = "gather"
    /\ \E i \in DOMAIN upload_results :
          /\ upload_results[i] = None
          /\ \E o \in UploadOutcomes(i) :
                upload_results' = [upload_results EXCEPT ![i] = Some(o)]
    /\ UNCHANGED <<up_images, upload_pc, upload_returned, images>>
    /\ UNCHANGED notUpload

\* gather(return_exceptions=True) returns once every upload has settled; the
\* images whose upload returned are rebuilt with the url of the upload
UploadCollect ==
    /\ upload_pc = "gather"
    /\ \A i \in DOMAIN upload_results : upload_results[i] # None
    /\ upload_returned' = Some(CollectUploaded(up_images, upload_results,
                                               Len(upload_results)))
    /\ upload_pc' = "returned"
    /\ UNCHANGED <<up_images, upload_results, images>>
    /\ UNCHANGED notUpload

-----------------------------------------------------------------------------
(* SlideshowsPinterestWorkflow.run, with the bodies of its steps *)

\* the step run() is in
CurStep == Plan(wf, input)[step_idx].id

\* a step body that awaits one activity is ended by the error of the activity
PipeActivityRaises ==
    /\ wf = "pipeline" /\ pc = "body"
    /\ CurStep \in {"generate_queries", "rewrite"}
    /\ CurStep = "rewrite" => images # <<>>
    /\ raised' = Some([cls |-> "ActivityError", text |-> "Activity task failed"])
    /\ pc' = "exit_exc"
    /\ UNCHANGED <<app_config, wf, input, step_idx>>
    /\ UNCHANGED <<status, current_step, completed_steps, open>>
    /\ UNCHANGED <<rubyVars, rewriteVars, auxVars, llmVars, selectVars, uploadVars, pipeVars, scrapeVars>>

\* queries = await self._generate_queries(input.prompt)
PipeGenerateQueries ==
    /\ wf = "pipeline" /\ pc = "body"
    /\ CurStep = "generate_queries"
    /\ queries' \in QueryLists \cup {ScenarioQueries}
    /\ pc' = "exit_ok"
    /\ UNCHANGED <<scrape_pc, results, all_pins, errors, scrape_returned, scrape_raised,
                   settle_order>>
    /\ UNCHANGED <<app_config, wf, input, step_idx>>
    /\ UNCHANGED ctxVars
    /\ UNCHANGED <<rubyVars, rewriteVars, auxVars, llmVars, selectVars, uploadVars, pipeVars>>

\* all_pins = await self._scrape_pinterest(queries): the call
PipeScrapeCall ==
    /\ wf = "pipeline" /\ pc = "body"
    /\ CurStep = "scrape"
    /\ scrape_pc = "idle"
    /\ scrape_pc' = "launch"
    /\ UNCHANGED <<queries, results, all_pins, errors, scrape_returned, scrape_raised,
                   settle_order>>
    /\ UNCHANGED notScrape

\* ... its return; the order in which the tasks had settled is gone with the
\* call
PipeScrapeReturns ==
    /\ wf = "pipeline" /\ pc = "body"
    /\ CurStep = "scrape"
    /\ scrape_pc = "returned"
    /\ pc' = "exit_ok"
    /\ UNCHANGED <<app_config, wf, input, step_idx>>
    /\ UNCHANGED ctxVars
    /\ settle_order' = <<>>
    /\ UNCHANGED <<queries, scrape_pc, results, all_pins, errors, scrape_returned,
                   scrape_raised>>
    /\ UNCHANGED <<llmVars, selectVars, uploadVars, pipeVars, rubyVars, rewriteVars, auxVars>>

\* ... its error, which ends the body of the step
PipeScrapeRaises ==
    /\ wf = "pipeline" /\ pc = "body"
    /\ CurStep = "scrape"
    /\ scrape_pc = "raised"
    /\ raised' = scrape_raised
    /\ pc' = "exit_exc"
    /\ UNCHANGED <<app_config, wf, input, step_idx>>
    /\ UNCHANGED <<status, current_step, completed_steps, open>>
    /\ settle_order' = <<>>
    /\ UNCHANGED <<queries, scrape_pc, results, all_pins, errors, scrape_returned,
                   scrape_raised>>
    /\ UNCHANGED <<llmVars, selectVars, uploadVars, pipeVars, rubyVars, rewriteVars, auxVars>>

\* images = self._select_best_images(all_pins): the call
PipeSelectCall ==
    /\ wf = "pipeline" /\ pc = "body"
    /\ CurStep = "select"
    /\ sel_pc = "idle"
    /\ sel_pins' = scrape_returned[1]
    /\ sel_pc' = "dedup"
    /\ UNCHANGED <<scored_pins, selected, selected_hashes, skipped_similar>>
    /\ UNCHANGED notSelect

\* ... its return
PipeSelectReturns ==
    /\ wf = "pipeline" /\ pc = "body"
    /\ CurStep = "select"
    /\ sel_pc = "returned"
    /\ images' = selected
    /\ pc' = "exit_ok"
    /\ UNCHANGED <<app_config, wf, input, step_idx>>
    /\ UNCHANGED ctxVars
    /\ UNCHANGED <<rubyVars, rewriteVars, auxVars, llmVars, scrapeVars, selectVars, uploadVars>>

\* the url the rewrite service hands back for an image
RewrittenUrl(url) == <<"r", "e", "w", "r", "i", "t", "e", ":">> \o url

\* rewritten_urls = await maybe_rewrite_images(image_urls, input), and the
\* images rebuilt with them: no activity for an empty list; else rewrite_images
\* returns, for each url, the rewritten url or (on a failure) the original
PipeRewrite ==
    /\ wf = "pipeline" /\ pc = "body"
    /\ CurStep = "rewrite"
    /\ \E rewritten \in SUBSET (DOMAIN images) :
          images' = [i \in DOMAIN images |->
                        IF i \in rewritten
                        THEN [images[i] EXCEPT !.image_url = RewrittenUrl(@)]
                        ELSE images[i]]
    /\ pc' = "exit_ok"
    /\ UNCHANGED <<app_config, wf, input, step_idx>>
    /\ UNCHANGED ctxVars
    /\ UNCHANGED <<rubyVars, rewriteVars, auxVars, llmVars, scrapeVars, selectVars, uploadVars>>

\* images = await self._upload_images(images): the call
PipeUploadCall ==
    /\ wf = "pipeline" /\ pc = "body"
    /\ CurStep = "upload"
    /\ upload_pc = "idle"
    /\ up_images' = images
    /\ upload_pc' = "launch"
    /\ UNCHANGED <<upload_results, upload_returned, images>>
    /\ UNCHANGED notUpload

\* ... its return
PipeUploadReturns ==
    /\ wf = "pipeline" /\ pc = "body"
    /\ CurStep = "upload"
    /\ upload_pc = "returned"
    /\ images' = upload_returned[1]
    /\ pc' = "exit_ok"
    /\ UNCHANGED <<app_config, wf, input, step_idx>>
    /\ UNCHANGED ctxVars
    /\ UNCHANGED <<rubyVars, rewriteVars, auxVars, llmVars, scrapeVars, selectVars, uploadVars>>

\* SlideshowsPinterestOutput(images=images, queries_used=queries,
\* total_scraped=len(all_pins)), once run() has returned
SlideshowsPinterestOutput ==
    [images |-> images, queries_used |-> queries,
     total_scraped |-> Len(scrape_returned[1])]

-----------------------------------------------------------------------------
(* RubyWorkflow.run, with the bodies of its steps *)

\* the url an activity hands back: the activity and the url it worked on
Produced(activity, url) == <<activity>> \o url

\* maybe_rewrite_image / maybe_rewrite_video: the url handed back; rewritten
\* tells whether the rewrite service produced a new url (its activity hands
\* back the original otherwise)
maybe_rewrite(activity, url, inp, rewritten) ==
    IF ~inp.rewrite_enabled THEN url
    ELSE IF rewritten THEN Produced(activity, url) ELSE url

\* the activities the body of a step awaits, in order
StepActivities(step_id, inp) ==
    CASE step_id = "prompts" -> <<"generate_ugc_person", "generate_ugc_video_reaction">>
      [] step_id = "face" -> <<"generate_image_with_model">>
      [] step_id = "video" -> <<"generate_video_with_model">>
      [] step_id = "slowmo" -> <<"slow_down_video">>
      [] step_id = "text" -> <<"add_text_overlay">>
      [] step_id = "rewrite" ->
           IF inp.rewrite_enabled THEN <<"rewrite_images", "rewrite_video">> ELSE <<>>
      [] step_id = "upload" -> <<"upload_to_storage">>

\* the locals after the body of the step, all its activities having returned
AfterBody(step_id, urls, inp, rw_image, rw_video) ==
    CASE step_id = "prompts" -> urls
      [] step_id = "face" ->
           [urls EXCEPT !.face_image_url = Some(Produced("generate_image_with_model", <<>>))]
      [] step_id = "video" ->
           LET raw == Produced("generate_video_with_model", urls.face_image_url[1])
           IN  [urls EXCEPT !.raw_video_url = Some(raw),
                            !.final_video_url = IF inp.slowed_video THEN None ELSE Some(raw)]
      [] step_id = "slowmo" ->
           [urls EXCEPT !.final_video_url =
                            Some(Produced("slow_down_video", urls.raw_video_url[1]))]
      [] step_id = "text" ->
           [urls EXCEPT !.final_video_url =
                            Some(Produced("add_text_overlay", urls.final_video_url[1]))]
      [] step_id = "rewrite" ->
           [urls EXCEPT !.face_image_url =
                            Some(maybe_rewrite("rewrite_images", @[1], inp, rw_image)),
                        !.final_video_url =
                            Some(maybe_rewrite("rewrite_video", @[1], inp, rw_video)),
                        !.rewrite_inputs =
                            IF inp.rewrite_enabled
                            THEN <<urls.face_image_url[1], urls.final_video_url[1]>>
                            ELSE <<>>]
      [] step_id = "upload" ->
           [urls EXCEPT !.face_url =
                            Some(Produced("upload_to_storage", urls.face_image_url[1]))]

\* the body of the step ends normally
SeqBodyOk ==
    /\ wf = "sequential" /\ pc = "body"
    /\ \E rw_image, rw_video \in BOOLEAN :
          ruby_urls' = AfterBody(CurStep, ruby_urls, input, rw_image, rw_video)
    /\ activities' = activities \o StepActivities(CurStep, input)
    /\ pc' = "exit_ok"
    /\ UNCHANGED <<app_config, wf, input, step_idx>>
    /\ UNCHANGED ctxVars
    /\ UNCHANGED <<llmVars, scrapeVars, selectVars, uploadVars, pipeVars, rewriteVars, auxVars>>

\* the k-th activity of the body ends by an error, or the run is cancelled
\* while it awaits it: run_activity raises
SeqBodyRaises ==
    /\ wf = "sequential" /\ pc = "body"
    /\ \E k \in DOMAIN StepActivities(CurStep, input) :
          activities' = activities \o SubSeq(StepActivities(CurStep, input), 1, k)
    /\ \E e \in BodyErrors(Plan(wf, input)[step_idx]) : raised' = Some(e)
    /\ pc' = "exit_exc"
    /\ UNCHANGED ruby_urls
    /\ UNCHANGED <<app_config, wf, input, step_idx>>
    /\ UNCHANGED <<status, current_step, completed_steps, open>>
    /\ UNCHANGED <<llmVars, scrapeVars, selectVars, uploadVars, pipeVars, rewriteVars, auxVars>>

\* RubyOutput(face_image_url=face_url, raw_video_url=raw_video_url,
\* final_video_url=final_video_url, ...), once run() has returned
RubyOutput ==
    [face_image_url |-> ruby_urls.face_url[1],
     raw_video_url |-> ruby_urls.raw_video_url[1],
     final_video_url |-> ruby_urls.final_video_url[1]]

-----------------------------------------------------------------------------
(* The rewrite activities and the rewrite tools *)

\* a value of the JSON document where a url is expected: its JSON type and,
\* for a string or a number, its text
JsonValue(t, v) == [t |-> t, v |-> v]
JsonTruthy(x) ==
    CASE x.t = "str" -> x.v # ""
      [] x.t = "num" -> x.v # "0"
      [] x.t = "null" -> FALSE

\* the body of a 2xx answer that is JSON: the type of the document, the type
\* of its member "data" ("absent" if there is none), the type of the member
\* "urls" (images) or "url" (video) of data, and the entries found there: the
\* entries of the list, the characters of the string, or the one value of "url"
JsonBody(top, data, member, entries) ==
    [top |-> top, data |-> data, member |-> member, entries |-> entries]
NoBody == JsonBody("none", "absent", "absent", <<>>)

\* what the post to the service ended by
Reply(kind, body) == [kind |-> kind, body |-> body]

TransportFailures ==
    { Reply(k, NoBody) : k \in {"timeout", "http_status", "request_error", "invalid_json"} }

R1 == JsonValue("str", "r1")
R2 == JsonValue("str", "r2")

\* the answers of the image rewrite service, {"data": {"urls": [...]}} when
\* all is well
ImageBodies ==
    { JsonBody("dict", "dict", "list", e) :
        e \in {<<R1, R2>>, <<R1>>, <<>>, <<R1, R2, R1>>,
               <<JsonValue("null", ""), R2>>, <<JsonValue("str", ""), R2>>,
               <<JsonValue("num", "7"), R2>>, <<R1, JsonValue("num", "0")>>} }
    \cup { JsonBody("dict", "dict", "str", <<JsonValue("str", "r"), JsonValue("str", "1")>>),
           JsonBody("dict", "dict", "null", <<>>),
           JsonBody("dict", "dict", "absent", <<>>),
           JsonBody("dict", "absent", "absent", <<>>),
           JsonBody("dict", "list", "absent", <<>>),
           JsonBody("dict", "null", "absent", <<>>),
           JsonBody("list", "absent", "absent", <<>>),
           JsonBody("str", "absent", "absent", <<>>),
           JsonBody("null", "absent", "absent", <<>>) }

\* the answers of the video rewrite service, {"data": {"url": "..."}} when all
\* is well
VideoBodies ==
    { JsonBody("dict", "dict", "value", <<x>>) :
        x \in {R1, JsonValue("str", ""), JsonValue("null", ""), JsonValue("num", "7")} }
    \cup { JsonBody("dict", "dict", "absent", <<>>),
           JsonBody("dict", "absent", "absent", <<>>),
           JsonBody("dict", "list", "absent", <<>>),
           JsonBody("list", "absent", "absent", <<>>),
           JsonBody("null", "absent", "absent", <<>>) }

Replies(op) ==
    TransportFailures
        \cup { Reply("json", b) : b \in IF op = "images" THEN ImageBodies ELSE VideoBodies }

\* how execute() ends: by an exception of this class, or by an output with
\* these rewritten urls
ExecuteRaises(cls) == [raised |-> Some(cls), urls |-> <<>>]
ExecuteReturns(urls) == [raised |-> None, urls |-> urls]

\* GptMarketImageRewriteTool.execute from "# Parse response" on
ImageParse(body, originals) ==
    IF body.top # "dict" THEN ExecuteRaises("AttributeError")       \* data.get
    ELSE IF body.data # "dict" \/ body.member = "absent" THEN ExecuteReturns(originals)
    ELSE IF body.member = "null" THEN ExecuteRaises("TypeError")    \* len(None)
    ELSE LET urls == body.entries
             Given(i) == i <= Len(urls) /\ JsonTruthy(urls[i])
         IN  IF \E i \in DOMAIN originals : Given(i) /\ urls[i].t # "str"
             THEN ExecuteRaises("ValidationError")                  \* rewritten_url: str
             ELSE ExecuteReturns([i \in DOMAIN originals |->
                                     IF Given(i) THEN urls[i].v ELSE originals[i]])

\* GptMarketVideoRewriteTool.execute from "# Parse response" on
VideoParse(body, originals) ==
    IF body.top # "dict" THEN ExecuteRaises("AttributeError")
    ELSE IF body.data # "dict" \/ body.member = "absent" THEN ExecuteReturns(originals)
    ELSE LET rewritten_url == body.entries[1] IN
         IF ~JsonTruthy(rewritten_url) THEN ExecuteReturns(originals)
         ELSE IF rewritten_url.t # "str" THEN ExecuteRaises("ValidationError")
         ELSE ExecuteReturns(<<rewritten_url.v>>)

Parse(op, body, originals) ==
    IF op = "images" THEN ImageParse(body, originals) ELSE VideoParse(body, originals)

\* rewrite_images / rewrite_video call execute(), which finds no API key and
\* returns the originals
RewriteNoKey ==
    /\ rw_pc = "call" /\ rw_api_key = None
    /\ rw_result' = Some(rw_urls)
    /\ rw_pc' = "executed"
    /\ UNCHANGED <<rw_op, rw_api_key, rw_urls, rw_reply, rw_raised>>
    /\ UNCHANGED <<runVars, ctxVars, llmVars, scrapeVars, selectVars, uploadVars,
                   pipeVars, rubyVars, auxVars>>

\* ... or posts the request
RewritePost ==
    /\ rw_pc = "call" /\ rw_api_key # None
    /\ rw_pc' = "posted"
    /\ UNCHANGED <<rw_op, rw_api_key, rw_urls, rw_reply, rw_result, rw_raised>>
    /\ UNCHANGED <<runVars, ctxVars, llmVars, scrapeVars, selectVars, uploadVars,
                   pipeVars, rubyVars, auxVars>>

\* the post times out, is answered by an error status or fails to connect, or
\* its answer is no JSON: execute() returns the originals
RewritePostFails ==
    /\ rw_pc = "posted"
    /\ \E r \in TransportFailures : rw_reply' = Some(r)
    /\ rw_result' = Some(rw_urls)
    /\ rw_pc' = "executed"
    /\ UNCHANGED <<rw_op, rw_api_key, rw_urls, rw_raised>>
    /\ UNCHANGED <<runVars, ctxVars, llmVars, scrapeVars, selectVars, uploadVars,
                   pipeVars, rubyVars, auxVars>>

\* the post is answered by a JSON document, which execute() parses
RewriteParses ==
    /\ rw_pc = "posted"
    /\ \E r \in Replies(rw_op) \ TransportFailures :
          LET out == Parse(rw_op, r.body, rw_urls) IN
          /\ rw_reply' = Some(r)
          /\ IF out.raised # None
             THEN rw_raised' = out.raised /\ rw_pc' = "raised" /\ UNCHANGED rw_result
             ELSE rw_result' = Some(out.urls) /\ rw_pc' = "executed" /\ UNCHANGED rw_raised
    /\ UNCHANGED <<rw_op, rw_api_key, rw_urls>>
    /\ UNCHANGED <<runVars, ctxVars, llmVars, scrapeVars, selectVars, uploadVars,
                   pipeVars, rubyVars, auxVars>>

\* the activity hands back the rewritten urls of the tool's output
RewriteActivityReturns ==
    /\ rw_pc = "executed"
    /\ rw_pc' = "returned"
    /\ UNCHANGED <<rw_op, rw_api_key, rw_urls, rw_reply, rw_result, rw_raised>>
    /\ UNCHANGED <<runVars, ctxVars, llmVars, scrapeVars, selectVars, uploadVars,
                   pipeVars, rubyVars, auxVars>>

\* the exception leaves the activity, which catches nothing
RewriteActivityRaises ==
    /\ rw_pc = "raised"
    /\ rw_pc' = "failed"
    /\ UNCHANGED <<rw_op, rw_api_key, rw_urls, rw_reply, rw_result, rw_raised>>
    /\ UNCHANGED <<runVars, ctxVars, llmVars, scrapeVars, selectVars, uploadVars,
                   pipeVars, rubyVars, auxVars>>

-----------------------------------------------------------------------------
(* get_temporal_client and the tasks of one process that call it *)

\* the tasks of the process that call get_temporal_client
Callers == {1, 2, 3}

\* bound of the model: the calls of get_temporal_client over a behaviour
MaxCalls == 4

\* a task calls get_temporal_client: with an instance in the holder the call
\* returns it at once; with none the task starts Client.connect and is
\* suspended at the await
ClientCall(c) ==
    /\ cl_pc[c] \in {"idle", "returned", "raised"}
    /\ cl_calls < MaxCalls
    /\ cl_calls' = cl_calls + 1
    /\ IF cl_instance = None
       THEN /\ cl_pc' = [cl_pc EXCEPT ![c] = "connecting"]
            /\ cl_got' = [cl_got EXCEPT ![c] = None]
       ELSE /\ cl_pc' = [cl_pc EXCEPT ![c] = "returned"]
            /\ cl_got' = [cl_got EXCEPT ![c] = cl_instance]
    /\ UNCHANGED <<cl_instance, cl_connects>>
    /\ UNCHANGED <<runVars, ctxVars, llmVars, scrapeVars, selectVars, uploadVars,
                   pipeVars, rubyVars, rewriteVars, toolVars, replVars>>

\* Client.connect of a task completes: the new client is stored in the holder
\* and the holder's instance is returned
ClientConnected(c) ==
    /\ cl_pc[c] = "connecting"
    /\ cl_connects' = cl_connects + 1
    /\ cl_instance' = Some(cl_connects + 1)
    /\ cl_got' = [cl_got EXCEPT ![c] = cl_instance']
    /\ cl_pc' = [cl_pc EXCEPT ![c] = "returned"]
    /\ UNCHANGED cl_calls
    /\ UNCHANGED <<runVars, ctxVars, llmVars, scrapeVars, selectVars, uploadVars,
                   pipeVars, rubyVars, rewriteVars, toolVars, replVars>>

\* Client.connect of a task raises: logged and raised again, the holder is
\* left as it is
ClientConnectFails(c) ==
    /\ cl_pc[c] = "connecting"
    /\ cl_pc' = [cl_pc EXCEPT ![c] = "raised"]
    /\ UNCHANGED <<cl_instance, cl_got, cl_connects, cl_calls>>
    /\ UNCHANGED <<runVars, ctxVars, llmVars, scrapeVars, selectVars, uploadVars,
                   pipeVars, rubyVars, rewriteVars, toolVars, replVars>>

-----------------------------------------------------------------------------
(* One scrape of _scrape_pinterest: the activity execute_tool under FAST_RETRY *)

\* FAST_RETRY.maximum_attempts
MAXIMUM_ATTEMPTS == 3

\* the ids tool_registry knows
RegisteredTools == {"gptmarket-pinterest-scraper"}

\* what can go wrong in the tool call: the params do not validate, the API key
\* is missing, the post times out, is answered by an error status, fails to
\* connect, is answered by no JSON, or by JSON of another shape than expected
ToolFaults ==
    {"none", "validation", "no_api_key", "timeout", "http_status", "request_error",
     "invalid_json", "bad_shape"}

\* the text of the failure the tool returns, or of the exception raised in
\* validate_input or in execute
FaultText(fault) ==
    CASE fault = "validation" -> "1 validation error for GptMarketPinterestScraperInput"
      [] fault = "no_api_key" -> "GPTMARKET_API_KEY is not configured"
      [] fault = "timeout" -> "Request timed out"
      [] fault = "http_status" -> "API error: 500"
      [] fault = "request_error" -> "Request failed"
      [] fault = "invalid_json" -> "Invalid JSON response from API"
      [] fault = "bad_shape" -> "'list' object has no attribute 'get'"

execute_tool_mut(tool_id, fault, pins) ==
    IF tool_id \notin RegisteredTools THEN Raised("Tool not found")
    ELSE IF fault = "none" THEN ToolOutput(TRUE, Some(pins), None)
    ELSE IF fault \in {"validation", "bad_shape"} THEN Raised(FaultText(fault))
    ELSE ToolOutput(FALSE, Some(<<>>), Some(FaultText(fault)))

\* one execution of execute_tool: get_or_raise raises for an unknown id; what
\* validate_input or execute raise is caught and returned as a failure with
\* output {}; a failure the tool returns is passed on with its output
execute_tool(tool_id, fault, pins) ==
    IF tool_id \notin RegisteredTools THEN Raised("Tool not found")
    ELSE IF fault = "none" THEN ToolOutput(TRUE, Some(pins), None)
    ELSE IF fault \in {"validation", "bad_shape"}
         THEN ToolOutput(FALSE, None, Some(FaultText(fault)))
    ELSE ToolOutput(FALSE, Some(<<>>), Some(FaultText(fault)))

\* the worker starts an execution of the activity
ToolAttemptStarts ==
    /\ et_pc = "scheduled"
    /\ et_attempts' = et_attempts + 1
    /\ et_pc' = "running"
    /\ UNCHANGED <<et_tool_id, et_fault, et_query, et_result, et_errors, et_pins>>
    /\ UNCHANGED <<runVars, ctxVars, llmVars, scrapeVars, selectVars, uploadVars,
                   pipeVars, rubyVars, rewriteVars, clientVars, replVars>>

\* the execution ends: a value settles the task; an exception makes the
\* server schedule the activity again until the attempts of the retry policy
\* are used up, and then settles the task by an ActivityError
ToolAttemptEnds ==
    /\ et_pc = "running"
    /\ \E pins \in PinLists :
          LET out == execute_tool(et_tool_id, et_fault, pins) IN
          IF out.kind = "result"
          THEN et_result' = Some(out) /\ et_pc' = "settled"
          ELSE IF et_attempts < MAXIMUM_ATTEMPTS
               THEN et_pc' = "scheduled" /\ UNCHANGED et_result
               ELSE /\ et_result' = Some(Raised("Activity task failed"))
                    /\ et_pc' = "settled"
    /\ UNCHANGED <<et_tool_id, et_fault, et_query, et_attempts, et_errors, et_pins>>
    /\ UNCHANGED <<runVars, ctxVars, llmVars, scrapeVars, selectVars, uploadVars,
                   pipeVars, rubyVars, rewriteVars, clientVars, replVars>>

\* the loop of _scrape_pinterest over the results takes this branch's result
ToolBranchCollected ==
    /\ et_pc = "settled"
    /\ et_errors' = CollectErrors(<<et_query>>, <<et_result>>, 1)
    /\ et_pins' = CollectPins(<<et_result>>, 1)
    /\ et_pc' = "collected"
    /\ UNCHANGED <<et_tool_id, et_fault, et_query, et_attempts, et_result>>
    /\ UNCHANGED <<runVars, ctxVars, llmVars, scrapeVars, selectVars, uploadVars,
                   pipeVars, rubyVars, rewriteVars, clientVars, replVars>>

-----------------------------------------------------------------------------
(* ReplicateClient.run and the generation activities over it *)

\* ReplicatePredictionStatus
PredictionStatuses == {"starting", "processing", "succeeded", "failed", "canceled"}
TerminalStatuses == {"succeeded", "failed", "canceled"}

\* the output of a prediction: nothing, a URL, or a list of URLs
OutNone == [shape |-> "none", urls |-> <<>>]
OutStr(url) == [shape |-> "str", urls |-> <<url>>]
OutList(urls) == [shape |-> "list", urls |-> urls]

GeneratedUrl == <<"h", "t", "t", "p", "s", ":", "/", "/", "r", "/", "o", "u", "t">>

\* the outputs a prediction can end with
OutputsOf(st) ==
    IF st = "succeeded"
    THEN {OutStr(GeneratedUrl), OutList(<<GeneratedUrl>>), OutList(<<>>), OutNone}
    ELSE {OutNone}

NoPrediction == [status |-> "none", output |-> OutNone]

\* ReplicatePrediction.get_output_url
get_output_url(prediction) ==
    CASE prediction.output.shape = "none" -> None
      [] prediction.output.shape = "str" -> Some(prediction.output.urls[1])
      [] prediction.output.shape = "list" ->
            IF prediction.output.urls # <<>> THEN Some(prediction.output.urls[1]) ELSE None

\* ImageGenerationOutput / VideoGenerationOutput of the activity for the
\* prediction run returned: output_url = prediction.get_output_url() or ''
GenerationOutput(prediction) ==
    [kind |-> "result", output_url |-> OrEmpty(get_output_url(prediction))]

\* run, line 59: create_prediction creates the prediction at the service
ReplCreate ==
    /\ rp_pc = "called"
    /\ \E st \in {"starting", "processing"} :
          rp_server' = [status |-> st, output |-> OutNone]
    /\ rp_pc' = "created"
    /\ UNCHANGED <<rp_kind, rp_wait, rp_raw, rp_prediction, rp_activity>>
    /\ UNCHANGED <<runVars, ctxVars, llmVars, scrapeVars, selectVars, uploadVars,
                   pipeVars, rubyVars, rewriteVars, toolVars, clientVars>>

\* run, line 59: create_prediction raises (the API refuses, the network fails)
ReplCreateRaises ==
    /\ rp_pc = "called"
    /\ rp_pc' = "raised"
    /\ UNCHANGED <<rp_kind, rp_wait, rp_server, rp_raw, rp_prediction, rp_activity>>
    /\ UNCHANGED <<runVars, ctxVars, llmVars, scrapeVars, selectVars, uploadVars,
                   pipeVars, rubyVars, rewriteVars, toolVars, clientVars>>

\* the service works on the prediction
ReplServerAdvances ==
    /\ rp_server.status \in {"starting", "processing"}
    /\ \E st \in PredictionStatuses \ {"starting"} :
          /\ st = "processing" => rp_server.status = "starting"
          /\ \E out \in OutputsOf(st) :
                rp_server' = [status |-> st, output |-> out]
    /\ UNCHANGED <<rp_kind, rp_wait, rp_pc, rp_raw, rp_prediction, rp_activity>>
    /\ UNCHANGED <<runVars, ctxVars, llmVars, scrapeVars, selectVars, uploadVars,
                   pipeVars, rubyVars, rewriteVars, toolVars, clientVars>>

\* run, lines 61-62: without wait the created prediction is returned
ReplReturnsCreated ==
    /\ rp_pc = "created"
    /\ ~rp_wait
    /\ rp_prediction' = Some(rp_server)
    /\ rp_pc' = "returned"
    /\ UNCHANGED <<rp_kind, rp_wait, rp_server, rp_raw, rp_activity>>
    /\ UNCHANGED <<runVars, ctxVars, llmVars, scrapeVars, selectVars, uploadVars,
                   pipeVars, rubyVars, rewriteVars, toolVars, clientVars>>

\* run, lines 65 and 68: predictions.async_get reads the prediction
ReplGet ==
    /\ \/ rp_pc = "created" /\ rp_wait
       \/ rp_pc = "waited"
    /\ rp_raw' = Some(rp_server)
    /\ rp_pc' = "got"
    /\ UNCHANGED <<rp_kind, rp_wait, rp_server, rp_prediction, rp_activity>>
    /\ UNCHANGED <<runVars, ctxVars, llmVars, scrapeVars, selectVars, uploadVars,
                   pipeVars, rubyVars, rewriteVars, toolVars, clientVars>>

\* run, lines 66 and 70: the test of the loop; a terminal status leaves the
\* loop and the converted prediction is returned
ReplLoop ==
    /\ rp_pc = "got"
    /\ IF rp_raw[1].status \in TerminalStatuses
       THEN rp_prediction' = rp_raw /\ rp_pc' = "returned"
       ELSE rp_pc' = "waiting" /\ UNCHANGED rp_prediction
    /\ UNCHANGED <<rp_kind, rp_wait, rp_server, rp_raw, rp_activity>>
    /\ UNCHANGED <<runVars, ctxVars, llmVars, scrapeVars, selectVars, uploadVars,
                   pipeVars, rubyVars, rewriteVars, toolVars, clientVars>>

\* run, line 67: async_wait returns once the prediction has ended
ReplWaited ==
    /\ rp_pc = "waiting"
    /\ rp_server.status \in TerminalStatuses
    /\ rp_pc' = "waited"
    /\ UNCHANGED <<rp_kind, rp_wait, rp_server, rp_raw, rp_prediction, rp_activity>>
    /\ UNCHANGED <<runVars, ctxVars, llmVars, scrapeVars, selectVars, uploadVars,
                   pipeVars, rubyVars, rewriteVars, toolVars, clientVars>>

\* generate_image_with_model / generate_video_with_model after run(wait=True)
\* returned: the output is built from the prediction, whatever its status
GenerationReturns ==
    /\ rp_pc = "returned"
    /\ rp_wait
    /\ rp_activity' = Some(GenerationOutput(rp_prediction[1]))
    /\ rp_pc' = "done"
    /\ UNCHANGED <<rp_kind, rp_wait, rp_server, rp_raw, rp_prediction>>
    /\ UNCHANGED <<runVars, ctxVars, llmVars, scrapeVars, selectVars, uploadVars,
                   pipeVars, rubyVars, rewriteVars, toolVars, clientVars>>

\* what run raises leaves the activity
GenerationRaises ==
    /\ rp_pc = "raised"
    /\ rp_wait
    /\ rp_activity' = Some([kind |-> "exception", output_url |-> <<>>])
    /\ rp_pc' = "done"
    /\ UNCHANGED <<rp_kind, rp_wait, rp_server, rp_raw, rp_prediction>>
    /\ UNCHANGED <<runVars, ctxVars, llmVars, scrapeVars, selectVars, uploadVars,
                   pipeVars, rubyVars, rewriteVars, toolVars, clientVars>>

-----------------------------------------------------------------------------
(* Specification *)

Configs ==
    [WORKFLOW_SECRET_ENABLED : BOOLEAN,
     WORKFLOW_SECRET_KEY : {None, Some(""), Some("k1")}]

SecretKeys == {None, Some(""), Some("k1"), Some("k2")}

\* the inputs of an invocation; the fields of RubyInput keep their defaults in
\* the other workflows, and a caller passes its input with each start()
Inputs(w) ==
    CASE w = "sequential" ->
           [secret_key : {None, Some("k1")}, rewrite_enabled : BOOLEAN,
            slowed_video : BOOLEAN, text_overlay : {None, Some(""), Some("WAIT FOR IT")},
            aspect_ratio : {"9:16", "4:5"}]
      [] w = "ruby" ->
           [secret_key : SecretKeys, rewrite_enabled : BOOLEAN, slowed_video : BOOLEAN,
            text_overlay : {None, Some(""), Some("WAIT FOR IT")},
            aspect_ratio : {"9:16", "4:5"}]
      [] w \in {"hello", "pinterest"} ->
           [secret_key : SecretKeys, rewrite_enabled : BOOLEAN, slowed_video : {TRUE},
            text_overlay : {None}, aspect_ratio : {"9:16"}]
      [] w = "pipeline" ->
           [secret_key : {None, Some("k1")}, rewrite_enabled : BOOLEAN,
            slowed_video : {TRUE}, text_overlay : {None}, aspect_ratio : {"9:16"}]
      [] OTHER ->
           [secret_key : {None}, rewrite_enabled : {FALSE}, slowed_video : {TRUE},
            text_overlay : {None}, aspect_ratio : {"9:16"}]

\* WorkflowContext.__init__
CtxInit ==
    /\ status = PENDING
    /\ current_step = None
    /\ completed_steps = <<>>
    /\ open = <<>>
    /\ raised = None

\* no call of LiteLLMClient.complete
LLMIdle ==
    /\ fallback_config = [enabled |-> TRUE, fallback_model |-> LITELLM_FALLBACK_MODEL,
                          retry_exceptions |-> DefaultRetryExceptions]
    /\ request = [model |-> None]
    /\ llm_pc = "idle"
    /\ calls = <<>>
    /\ primary_error = None
    /\ fallback_error = None
    /\ llm_returned = None
    /\ llm_raised = None

\* no call of _scrape_pinterest
ScrapeIdle ==
    /\ queries = <<>>
    /\ scrape_pc = "idle"
    /\ results = <<>>
    /\ all_pins = <<>>
    /\ errors = <<>>
    /\ scrape_returned = None
    /\ scrape_raised = None
    /\ settle_order = <<>>

\* no call of _select_best_images
SelectIdle ==
    /\ sel_pins = <<>>
    /\ sel_pc = "idle"
    /\ scored_pins = <<>>
    /\ selected = <<>>
    /\ selected_hashes = <<>>
    /\ skipped_similar = 0

\* no call of _upload_images, and no run() that holds images
UploadIdle ==
    /\ up_images = <<>>
    /\ upload_pc = "idle"
    /\ upload_results = <<>>
    /\ upload_returned = None
    /\ images = <<>>

\* no scrape in flight
ToolIdle ==
    /\ et_tool_id = ""
    /\ et_fault = "none"
    /\ et_query = 0
    /\ et_attempts = 0
    /\ et_pc = "idle"
    /\ et_result = None
    /\ et_errors = <<>>
    /\ et_pins = <<>>

\* no caller of get_temporal_client yet, nothing in the holder
ClientIdle ==
    /\ cl_instance = None
    /\ cl_pc = [c \in Callers |-> "idle"]
    /\ cl_got = [c \in Callers |-> None]
    /\ cl_connects = 0
    /\ cl_calls = 0

\* no generation activity in flight
ReplIdle ==
    /\ rp_kind = "image"
    /\ rp_wait = TRUE
    /\ rp_pc = "idle"
    /\ rp_server = NoPrediction
    /\ rp_raw = None
    /\ rp_prediction = None
    /\ rp_activity = None

\* none of the operations outside the workflows is in flight
AuxIdle ==
    /\ ToolIdle
    /\ ClientIdle
    /\ ReplIdle

\* no rewrite activity in flight
RewriteIdle ==
    /\ rw_op = "images"
    /\ rw_api_key = None
    /\ rw_urls = <<>>
    /\ rw_pc = "idle"
    /\ rw_reply = None
    /\ rw_result = None
    /\ rw_raised = None

\* no run of RubyWorkflow that holds urls
RubyIdle ==
    /\ ruby_urls = [face_image_url |-> None, raw_video_url |-> None,
                    final_video_url |-> None, face_url |-> None,
                    rewrite_inputs |-> <<>>]
    /\ activities = <<>>

\* no workflow and no caller of the context
RunIdle ==
    /\ app_config = [WORKFLOW_SECRET_ENABLED |-> FALSE, WORKFLOW_SECRET_KEY |-> None]
    /\ wf = "none"
    /\ input \in Inputs(wf)
    /\ pc = "idle"
    /\ step_idx = 1
    /\ CtxInit

Init ==
    /\ app_config \in Configs
    /\ wf \in Workflows \cup {"caller"}
    /\ input \in Inputs(wf)
    /\ pc = IF wf = "caller" THEN "caller" ELSE "start"
    /\ step_idx = 1
    /\ CtxInit
    /\ LLMIdle
    /\ ScrapeIdle
    /\ SelectIdle
    /\ UploadIdle
    /\ RubyIdle
    /\ RewriteIdle
    /\ AuxIdle

Next ==
    \/ RunStart
    \/ RubyAspect
    \/ RunEnterStep
    \/ RunBodyOk
    \/ RunBodyRaise
    \/ RunStepExitOk
    \/ RunStepExitExc
    \/ RunComplete
    \/ CallerStart
    \/ CallerStepEnter
    \/ CallerStepExitOk
    \/ CallerStepExitExc
    \/ CallerComplete
    \/ CallerFail

Spec == Init /\ [][Next]_vars

\* A call of LiteLLMClient.complete(request=...)
LLMInit ==
    /\ fallback_config \in [enabled : BOOLEAN, fallback_model : {LITELLM_FALLBACK_MODEL},
                            retry_exceptions : {DefaultRetryExceptions, <<>>}]
    /\ request \in [model : {None, Some(<<"g", "e", "m", "i", "n", "i", "/", "g", "e", "m", "i", "n", "i", "-", "2", ".", "0", "-", "f", "l", "a", "s", "h", "-", "l", "i", "t", "e">>)}]
    /\ llm_pc = "begin"
    /\ calls = <<>>
    /\ primary_error = None
    /\ fallback_error = None
    /\ llm_returned = None
    /\ llm_raised = None
    /\ RunIdle
    /\ ScrapeIdle
    /\ SelectIdle
    /\ UploadIdle
    /\ RubyIdle
    /\ RewriteIdle
    /\ AuxIdle

LLMNext ==
    \/ LLMBegin
    \/ LLMPrimaryReturns
    \/ LLMPrimaryRaises
    \/ LLMFallbackReturns
    \/ LLMFallbackRaises

SpecLLM == LLMInit /\ [][LLMNext]_vars

\* A call of _scrape_pinterest(queries)
ScrapeInit ==
    /\ queries \in QueryLists
    /\ scrape_pc = "launch"
    /\ results = <<>>
    /\ all_pins = <<>>
    /\ errors = <<>>
    /\ scrape_returned = None
    /\ scrape_raised = None
    /\ settle_order = <<>>
    /\ RunIdle
    /\ LLMIdle
    /\ SelectIdle
    /\ UploadIdle
    /\ RubyIdle
    /\ RewriteIdle
    /\ AuxIdle

ScrapeNext ==
    \/ ScrapeLaunch
    \/ BranchSettles
    \/ ScrapeCollect

SpecScrape == ScrapeInit /\ [][ScrapeNext]_vars

\* the lists of at most n pins of the pool
PinSeqs(n) == UNION { [1..k -> PinPool] : k \in 0..n }

\* A call of _select_best_images(pins)
SelectInit ==
    /\ sel_pins \in PinSeqs(MaxPins) \cup {DuplicatesList, ManyPinsList}
    /\ sel_pc = "dedup"
    /\ scored_pins = <<>>
    /\ selected = <<>>
    /\ selected_hashes = <<>>
    /\ skipped_similar = 0
    /\ RunIdle
    /\ LLMIdle
    /\ ScrapeIdle
    /\ UploadIdle
    /\ RubyIdle
    /\ RewriteIdle
    /\ AuxIdle

SelectNext ==
    \/ SelectDedup
    \/ SelectSort
    \/ SelectPick

SpecSelect == SelectInit /\ [][SelectNext]_vars

\* An invocation of SlideshowsPinterestWorkflow.run(input)
PipelineInit ==
    /\ app_config = [WORKFLOW_SECRET_ENABLED |-> TRUE, WORKFLOW_SECRET_KEY |-> Some("k1")]
    /\ wf = "pipeline"
    /\ input \in Inputs(wf)
    /\ pc = "start"
    /\ step_idx = 1
    /\ CtxInit
    /\ LLMIdle
    /\ ScrapeIdle
    /\ SelectIdle
    /\ UploadIdle
    /\ RubyIdle
    /\ RewriteIdle
    /\ AuxIdle

PipelineNext ==
    \/ RunStart
    \/ RunEnterStep
    \/ RunStepExitOk
    \/ RunStepExitExc
    \/ RunComplete
    \/ PipeActivityRaises
    \/ PipeGenerateQueries
    \/ PipeScrapeCall
    \/ ScrapeLaunch
    \/ BranchSettles
    \/ ScrapeCollect
    \/ PipeScrapeReturns
    \/ PipeScrapeRaises
    \/ PipeSelectCall
    \/ SelectDedup
    \/ SelectSort
    \/ SelectPick
    \/ PipeSelectReturns
    \/ PipeRewrite
    \/ PipeUploadCall
    \/ UploadLaunch
    \/ UploadSettles
    \/ UploadCollect
    \/ PipeUploadReturns

SpecPipeline == PipelineInit /\ [][PipelineNext]_vars

\* An invocation of RubyWorkflow.run(input)
SequentialInit ==
    /\ app_config = [WORKFLOW_SECRET_ENABLED |-> TRUE, WORKFLOW_SECRET_KEY |-> Some("k1")]
    /\ wf = "sequential"
    /\ input \in Inputs(wf)
    /\ pc = "start"
    /\ step_idx = 1
    /\ CtxInit
    /\ LLMIdle
    /\ ScrapeIdle
    /\ SelectIdle
    /\ UploadIdle
    /\ RubyIdle
    /\ RewriteIdle
    /\ AuxIdle

SequentialNext ==
    \/ RunStart
    \/ RubyAspect
    \/ RunEnterStep
    \/ SeqBodyOk
    \/ SeqBodyRaises
    \/ RunStepExitOk
    \/ RunStepExitExc
    \/ RunComplete

SpecSequential == SequentialInit /\ [][SequentialNext]_vars

\* An invocation of rewrite_images (one or two urls) or of rewrite_video
RewriteInit ==
    /\ RunIdle
    /\ LLMIdle
    /\ ScrapeIdle
    /\ SelectIdle
    /\ UploadIdle
    /\ RubyIdle
    /\ rw_op \in {"images", "video"}
    /\ rw_api_key \in {None, Some("key")}
    /\ rw_urls \in IF rw_op = "video" THEN {<<"v1">>}
                   ELSE {<<"u1">>, <<"u1", "u2">>, <<"u2", "u1">>}
    /\ rw_pc = "call"
    /\ rw_reply = None
    /\ rw_result = None
    /\ rw_raised = None
    /\ AuxIdle

RewriteNext ==
    \/ RewriteNoKey
    \/ RewritePost
    \/ RewritePostFails
    \/ RewriteParses
    \/ RewriteActivityReturns
    \/ RewriteActivityRaises

SpecRewrite == RewriteInit /\ [][RewriteNext]_vars

\* One scrape: run_activity(execute_tool, ExecuteToolInput(tool_id, params))
ToolInit ==
    /\ RunIdle
    /\ LLMIdle
    /\ ScrapeIdle
    /\ SelectIdle
    /\ UploadIdle
    /\ RubyIdle
    /\ RewriteIdle
    /\ ClientIdle
    /\ ReplIdle
    /\ et_tool_id \in {"gptmarket-pinterest-scraper", "gptmarket-pinterest"}
    /\ et_fault \in ToolFaults
    /\ et_query \in {1, 2}
    /\ et_attempts = 0
    /\ et_pc = "scheduled"
    /\ et_result = None
    /\ et_errors = <<>>
    /\ et_pins = <<>>

ToolNext ==
    \/ ToolAttemptStarts
    \/ ToolAttemptEnds
    \/ ToolBranchCollected

SpecTool == ToolInit /\ [][ToolNext]_vars

\* The tasks of one process calling get_temporal_client
ClientInit ==
    /\ RunIdle
    /\ LLMIdle
    /\ ScrapeIdle
    /\ SelectIdle
    /\ UploadIdle
    /\ RubyIdle
    /\ RewriteIdle
    /\ ToolIdle
    /\ ReplIdle
    /\ ClientIdle

ClientNext ==
    \E c \in Callers :
        \/ ClientCall(c)
        \/ ClientConnected(c)
        \/ ClientConnectFails(c)

SpecClient == ClientInit /\ [][ClientNext]_vars

\* One call of ReplicateClient.run, from a generation activity (wait = True)
\* or from another caller without wait
ReplInit ==
    /\ RunIdle
    /\ LLMIdle
    /\ ScrapeIdle
    /\ SelectIdle
    /\ UploadIdle
    /\ RubyIdle
    /\ RewriteIdle
    /\ ToolIdle
    /\ ClientIdle
    /\ rp_kind \in {"image", "video"}
    /\ rp_wait \in BOOLEAN
    /\ rp_pc = "called"
    /\ rp_server = NoPrediction
    /\ rp_raw = None
    /\ rp_prediction = None
    /\ rp_activity = None

ReplNext ==
    \/ ReplCreate
    \/ ReplCreateRaises
    \/ ReplServerAdvances
    \/ ReplReturnsCreated
    \/ ReplGet
    \/ ReplLoop
    \/ ReplWaited
    \/ GenerationReturns
    \/ GenerationRaises

SpecRepl == ReplInit /\ [][ReplNext]_vars

-----------------------------------------------------------------------------
(* The status queries of the workflows *)

get_status == status
get_current_step == current_step

-----------------------------------------------------------------------------
(* Claims about WorkflowContext and the workflows that drive it *)

\* the configuration and the input for which authentication must fail
AuthMustFail ==
    /\ app_config.WORKFLOW_SECRET_ENABLED
    /\ \/ ~Truthy(app_config.WORKFLOW_SECRET_KEY)
       \/ input.secret_key = None
       \/ input.secret_key # app_config.WORKFLOW_SECRET_KEY

\* C1: when WORKFLOW_SECRET_ENABLED is true and no server secret is configured,
\* or input.secret_key is absent or differs from it, run() never gets past
\* start(): start() raises a non-retryable error, the status stays PENDING and
\* no step is ever recorded (current_step stays None, no step() is entered).
C1_AuthFailureLeavesPending ==
    (wf \in Workflows /\ AuthMustFail) =>
        /\ pc \in {"start", "raised"}
        /\ get_status = PENDING
        /\ get_current_step = None
        /\ open = <<>> /\ completed_steps = <<>>
        /\ pc = "raised" => (/\ raised # None
                             /\ raised[1].cls = "ApplicationError"
                             /\ raised[1].non_retryable)

C1_Witness ==
    /\ wf = "pinterest" /\ pc = "raised"
    /\ app_config.WORKFLOW_SECRET_ENABLED
    /\ app_config.WORKFLOW_SECRET_KEY = Some("k1")
    /\ input.secret_key = Some("k2")
    /\ raised # None

Terminal == {COMPLETED, FAILED, CANCELLED}

\* C2: once the status is COMPLETED, FAILED or CANCELLED, no later operation
\* on the context (start, entering or leaving a step, complete, fail) changes
\* the status.
C2_TerminalStatusNeverChanges ==
    [][(status \in Terminal) => (status' = status)]_vars

\* what leaving a step does, for C3: on entry the step is recorded RUNNING; a
\* body that ends normally makes the step COMPLETED and appends its id.
C3_EnterAndNormalExit ==
    LET s == Plan(wf, input)[step_idx] IN
    /\ (pc = "enter" /\ pc' = "body") =>
           /\ current_step' # None
           /\ current_step'[1].step_id = s.id
           /\ current_step'[1].status = RUNNING
    /\ (pc = "exit_ok" /\ pc' # "exit_ok") =>
           /\ current_step'[1].step_id = s.id
           /\ current_step'[1].status = COMPLETED
           /\ completed_steps' = Append(completed_steps, s.id)
           /\ status' = status

\* C3, as amended: the step is recorded RUNNING on entry; a body that ends
\* normally makes the step COMPLETED and appends its id; a body ended by an
\* exception that derives from Exception makes the step and the overall status
\* FAILED, appends nothing and re-raises the same exception; an exception that
\* derives from BaseException only (asyncio.CancelledError) is re-raised as
\* well, but leaves the step and the status as they were (RUNNING).
C3_StepLifecycleStep ==
    wf \in Workflows =>
        /\ C3_EnterAndNormalExit
        /\ (pc = "exit_exc" /\ pc' # "exit_exc") =>
               /\ raised' = raised
               /\ completed_steps' = completed_steps
               /\ IF IsException(raised[1])
                  THEN /\ status' = FAILED
                       /\ current_step'[1].status = FAILED
                       /\ current_step'[1].step_id = Plan(wf, input)[step_idx].id
                  ELSE /\ status' = status
                       /\ current_step' = current_step
                       /\ current_step[1].status = RUNNING

C3_StepLifecycle == [][C3_StepLifecycleStep]_vars

C3_Witness ==
    /\ wf = "ruby" /\ pc = "raised"
    /\ completed_steps = <<"prompts", "face">>
    /\ status = FAILED
    /\ current_step # None /\ current_step[1].step_id = "video"
    /\ current_step[1].status = FAILED
    /\ raised = Some([cls |-> "ActivityError", text |-> "Activity task failed"])

\* C3, as claimed: ... if the body is ended by ANY exception, the step and
\* the overall status become FAILED, the step id is not appended, and the
\* same exception is re-raised.
C3_AnyExceptionFailsStepStep ==
    wf \in Workflows =>
        /\ C3_EnterAndNormalExit
        /\ (pc = "exit_exc" /\ pc' # "exit_exc") =>
               /\ raised' = raised
               /\ completed_steps' = completed_steps
               /\ status' = FAILED
               /\ current_step'[1].status = FAILED

C3_AnyExceptionFailsStep == [][C3_AnyExceptionFailsStepStep]_vars

\* C4: whenever a workflow's run() has returned normally, the status query
\* returns COMPLETED and the current step is the synthetic terminal step
\* 'complete' with progress 100.
C4_ReturnedMeansCompleted ==
    (wf \in Workflows /\ pc = "returned") =>
        /\ get_status = COMPLETED
        /\ get_current_step # None
        /\ get_current_step[1].step_id = "complete"
        /\ get_current_step[1].status = COMPLETED
        /\ get_current_step[1].progress_pct = 100

C4_Witness ==
    /\ wf = "hello" /\ pc = "returned"
    /\ completed_steps = <<"greet">>
    /\ get_status = COMPLETED

\* C5, as claimed: in every reachable state where the status is FAILED,
\* current_step is not None, its status is FAILED and its message is the
\* text of the error that caused the failure.
C5_FailedHasFailedStep ==
    status = FAILED =>
        /\ current_step # None
        /\ current_step[1].status = FAILED

\* C5, as amended: in every reachable state of the three workflows (which
\* fail only through a step whose body raised, and never call fail()) where
\* the status is FAILED, current_step is not None, its status is FAILED, it
\* is the step whose body raised, and its message is the text of that error.
C5_WorkflowFailedStep ==
    (wf \in Workflows /\ status = FAILED) =>
        /\ pc = "raised"
        /\ raised # None
        /\ current_step # None
        /\ current_step[1].status = FAILED
        /\ current_step[1].step_id = Plan(wf, input)[step_idx].id
        /\ current_step[1].message = Str(raised[1])

C5_Witness ==
    /\ wf = "pinterest" /\ status = FAILED
    /\ current_step # None /\ current_step[1].step_id = "scrape"
    /\ current_step[1].message = <<"Activity task failed">>

\* C6: in both pipelines, for every combination of the optional flags, the
\* progress_pct of the successive current steps of one invocation, the final
\* synthetic step included, stays within 0..100 and never decreases.
C6_InRange ==
    (wf \in {"ruby", "pinterest"} /\ current_step # None) =>
        current_step[1].progress_pct \in 0..100

C6_NeverDecreases ==
    (wf \in {"ruby", "pinterest"} /\ current_step # None) =>
        /\ current_step' # None
        /\ current_step'[1].progress_pct >= current_step[1].progress_pct

C6_ProgressMonotonic == []C6_InRange /\ [][C6_NeverDecreases]_vars

C6_Witness ==
    /\ wf = "ruby" /\ pc = "returned"
    /\ completed_steps = <<"prompts", "face", "video", "slowmo", "text", "rewrite", "upload">>
    /\ current_step[1].progress_pct = 100

-----------------------------------------------------------------------------
(* Claims about LiteLLMClient.complete *)

LLMDone == llm_pc \in {"returned", "raised"}

\* C7: if the call against the primary model succeeds, the fallback model is
\* never called and the returned result reports fallback_used = false.
C7_PrimarySuccessNoFallback ==
    (llm_pc = "returned" /\ primary_error = None) =>
        /\ calls = <<PrimaryModel(request)>>
        /\ llm_returned # None
        /\ llm_returned[1].fallback_used = FALSE
        /\ llm_returned[1].model = PrimaryModel(request)
        /\ llm_raised = None

C7_Witness ==
    /\ llm_pc = "returned" /\ primary_error = None
    /\ fallback_config.enabled
    /\ calls = <<LITELLM_PRIMARY_MODEL>>

\* the calls made against the fallback model
FallbackCalls == SelectSeq(calls, LAMBDA m : m = fallback_config.fallback_model)

\* C8: when the primary call fails: if fallback is enabled and the error is
\* classified transient, exactly one call against the fallback model is made;
\* if fallback is disabled or the error is not classified transient, no
\* fallback call is made and the original primary error propagates unchanged.
C8_FallbackOnlyWhenTransient ==
    (LLMDone /\ primary_error # None) =>
        IF fallback_config.enabled /\ should_fallback(primary_error[1])
        THEN Len(FallbackCalls) = 1 /\ Len(calls) = 2
        ELSE /\ Len(FallbackCalls) = 0
             /\ llm_pc = "raised"
             /\ llm_raised = primary_error
             /\ llm_returned = None

C8_Witness ==
    /\ LLMDone
    /\ fallback_config.enabled
    /\ primary_error # None
    /\ primary_error[1].type_name = <<"V", "a", "l", "u", "e", "E", "r", "r", "o", "r">>
    /\ calls = <<LITELLM_PRIMARY_MODEL, LITELLM_FALLBACK_MODEL>>
    /\ llm_returned # None /\ llm_returned[1].fallback_used

\* both calls were ended by an exception that "except Exception" catches
BothFailed ==
    /\ llm_pc = "raised"
    /\ primary_error # None /\ fallback_error # None
    /\ fallback_error[1].is_exception

\* the combined error carries this failure's type: in its text, or as the
\* type of its cause
CarriesType(combined, error) ==
    \/ Contains(combined.text, error.type_name)
    \/ combined.cause # None /\ combined.cause[1].type_name = error.type_name

\* C9, as claimed: when the primary call fails with a transient error and the
\* single fallback call also fails, complete() raises one combined error that
\* embeds the message and the type of both the primary and the fallback
\* failure.
C9_CombinedErrorEmbedsTypes ==
    BothFailed =>
        /\ llm_raised # None
        /\ Contains(llm_raised[1].text, primary_error[1].text)
        /\ Contains(llm_raised[1].text, fallback_error[1].text)
        /\ CarriesType(llm_raised[1], primary_error[1])
        /\ CarriesType(llm_raised[1], fallback_error[1])

\* C9, as amended: when the primary call fails with a transient error and the
\* single fallback call also fails with an Exception, complete() raises one
\* RuntimeError whose text names both models and embeds str() of the primary
\* and of the fallback error, and whose cause is the fallback error itself
\* (type and message); the type of the primary error is not put into it.
C9_CombinedErrorEmbedsMessages ==
    BothFailed =>
        /\ llm_raised # None
        /\ llm_raised[1].type_name = <<"R", "u", "n", "t", "i", "m", "e", "E", "r", "r", "o", "r">>
        /\ Contains(llm_raised[1].text, <<"P", "r", "i", "m", "a", "r", "y", " ", "e", "r", "r", "o", "r", ":", " ">> \o primary_error[1].text \o <<".", " ", "F", "a", "l", "l", "b", "a", "c", "k", " ", "e", "r", "r", "o", "r", ":", " ">>
                                        \o fallback_error[1].text)
        /\ Contains(llm_raised[1].text, PrimaryModel(request))
        /\ Contains(llm_raised[1].text, fallback_config.fallback_model)
        /\ llm_raised[1].cause = fallback_error
        /\ llm_returned = None
        /\ Len(calls) = 2

C9_Witness ==
    /\ BothFailed
    /\ primary_error[1].type_name = <<"R", "a", "t", "e", "L", "i", "m", "i", "t", "E", "r", "r", "o", "r">>
    /\ fallback_error[1].type_name = <<"A", "u", "t", "h", "e", "n", "t", "i", "c", "a", "t", "i", "o", "n", "E", "r", "r", "o", "r">>
    /\ llm_raised # None /\ llm_raised[1].type_name = <<"R", "u", "n", "t", "i", "m", "e", "E", "r", "r", "o", "r">>

-----------------------------------------------------------------------------
(* Claims about the scrape fan-out *)

\* a branch succeeded: its task returned a result with success = True
Succeeded(i) == results[i] # None /\ results[i][1].kind = "result" /\ results[i][1].success
Successes == { i \in DOMAIN results : Succeeded(i) }
ScrapeDone == scrape_pc \in {"returned", "raised"}

\* C10: if at least one and fewer than N branches succeed, the fan-out
\* returns normally without raising, and both the successful results and the
\* failures are returned to the caller.
C10_PartialFailureReturnsBoth ==
    (ScrapeDone /\ Cardinality(Successes) > 0
                /\ Cardinality(Successes) < Len(queries)) =>
        /\ scrape_pc = "returned"
        /\ scrape_raised = None
        /\ scrape_returned # None
        /\ \A i \in Successes : \A k \in DOMAIN results[i][1].output[1] :
              \E j \in DOMAIN scrape_returned[1] :
                 scrape_returned[1][j] = results[i][1].output[1][k]
        /\ \A k \in DOMAIN errors :
              \E j \in DOMAIN scrape_returned[1] : scrape_returned[1][j] = errors[k]


\* the branches that failed: the task raised, or returned success = False
Failures == { i \in DOMAIN results : results[i] # None /\ ~Succeeded(i) }

\* C11: if every one of the N >= 1 branches fails, the fan-out raises a
\* non-retryable error whose message lists the failure of every branch, one
\* entry per failed query in the order of the queries, and it raises this
\* error only in that case (never while some branch succeeded).
C11_RaisesIffAllFailed ==
    ScrapeDone =>
        /\ (scrape_pc = "raised") <=> (Cardinality(Failures) = Len(queries))
        /\ scrape_pc = "raised" =>
              /\ scrape_raised # None
              /\ scrape_raised[1].cls = "ApplicationError"
              /\ scrape_raised[1].non_retryable
              /\ Len(scrape_raised[1].joined) = Len(queries)
              /\ \A i \in DOMAIN queries :
                    scrape_raised[1].joined[i].query = queries[i]


-----------------------------------------------------------------------------
(* Claims about the selection *)

\* the positions of the candidates the selection keeps: a non-empty url that
\* no earlier candidate has
FirstOfUrl ==
    { i \in DOMAIN sel_pins :
         /\ sel_pins[i].image_url # <<>>
         /\ \A j \in 1..(i - 1) : sel_pins[j].image_url # sel_pins[i].image_url }

\* C13: the selection keeps, for each distinct non-empty image url, exactly
\* the first candidate in input order, in input order, and drops every later
\* candidate with the same url and every candidate without a url; the 5
\* candidates sharing one url plus 3 with distinct urls leave exactly 4
\* candidates before scoring order is applied.
C13_DedupKeepsFirstOfEachUrl ==
    sel_pc = "sort" =>
        /\ Len(scored_pins) = Cardinality(FirstOfUrl)
        /\ \A i \in FirstOfUrl :
              scored_pins[Cardinality({ j \in FirstOfUrl : j <= i })].pin = sel_pins[i]
        /\ sel_pins = DuplicatesList => Len(scored_pins) = 4

C13_Witness ==
    /\ sel_pc = "sort"
    /\ sel_pins = DuplicatesList
    /\ Len(sel_pins) = 8
    /\ Len(scored_pins) = 4
    /\ scored_pins[1].pin = sel_pins[1]


\* the position in the input of the candidate an entry of scored_pins was made of
Origin(entry) ==
    CHOOSE i \in FirstOfUrl : sel_pins[i].image_url = entry.pin.image_url

\* C14: after dedup, the candidates are considered in descending score order
\* with equal scores kept in original input order. Score and input position
\* order the kept candidates totally, so the order in which they are
\* considered (and with it the output) is fixed by the input list alone.
C14_SortedByScoreThenInputOrder ==
    sel_pc \in {"pick", "returned"} =>
        /\ Len(scored_pins) = Cardinality(FirstOfUrl)
        /\ \A i \in FirstOfUrl : \E a \in DOMAIN scored_pins :
              /\ scored_pins[a].pin = sel_pins[i]
              /\ scored_pins[a].score = score_pin(sel_pins[i])
        /\ \A a, b \in DOMAIN scored_pins :
              a < b => \/ scored_pins[a].score > scored_pins[b].score
                       \/ /\ scored_pins[a].score = scored_pins[b].score
                          /\ Origin(scored_pins[a]) < Origin(scored_pins[b])

\* a later candidate with a higher score was moved to the front, and two
\* candidates with equal scores kept their input order
C14_Witness ==
    /\ sel_pc = "returned"
    /\ sel_pins = << PoolPins[2], PoolPins[6], PoolPins[5] >>
    /\ scored_pins[1].pin = PoolPins[5]
    /\ scored_pins[2].pin = PoolPins[2] /\ scored_pins[3].pin = PoolPins[6]
    /\ scored_pins[2].score = scored_pins[3].score
    /\ selected[1].id = PoolPins[5].id /\ selected[2].id = PoolPins[2].id


\* the 4 characters by which two fingerprints are compared
Prefix(image) == SubSeq(compute_image_hash(image), 1, 4)

\* C15: in every selected set no two items have fingerprints with the same
\* 4-character prefix, and the set never has more than k =
\* _NUM_IMAGES_TO_RETURN items; when fewer than k mutually diverse candidates
\* exist, the selection returns fewer than k items (every kept candidate that
\* is not selected is one that was skipped as too similar); an empty input
\* gives an empty output; 27 mutually diverse candidates give exactly k.
C15_SelectedDiverseAndBounded ==
    sel_pc = "returned" =>
        /\ \A a, b \in DOMAIN selected : a # b => Prefix(selected[a]) # Prefix(selected[b])
        /\ Len(selected) <= NUM_IMAGES_TO_RETURN
        /\ Len(selected_hashes) = Len(selected)
        /\ Len(selected) < NUM_IMAGES_TO_RETURN =>
              /\ Len(selected) + skipped_similar = Len(scored_pins)
              /\ \A c \in DOMAIN scored_pins :
                    \E a \in DOMAIN selected : Prefix(selected[a]) = Prefix(scored_pins[c].pin)
        /\ sel_pins = <<>> => selected = <<>>
        /\ sel_pins = ManyPinsList => Len(selected) = NUM_IMAGES_TO_RETURN

\* two candidates with different urls whose fingerprints share the prefix:
\* the second one is skipped, and fewer than k items are returned
C15_Witness ==
    /\ sel_pc = "returned"
    /\ sel_pins = << PoolPins[1], PoolPins[6], PoolPins[7] >>
    /\ PoolPins[1].image_url # PoolPins[6].image_url
    /\ Prefix(PoolPins[1]) = Prefix(PoolPins[6])
    /\ Len(scored_pins) = 3
    /\ Len(selected) = 2 /\ skipped_similar = 1
    /\ selected[1].id = PoolPins[1].id /\ selected[2].id = PoolPins[7].id


\* the last path component of a url
UrlTail(url) == LET parts == Split(url, "/") IN parts[Len(parts)]

\* two urls that are not equal and differ in one character of their tails only
NearIdenticalTails(u, v) ==
    /\ u # v
    /\ Len(u) = Len(v)
    /\ Cardinality({ i \in DOMAIN u : u[i] # v[i] }) = 1
    /\ Len(UrlTail(u)) = Len(UrlTail(v))
    /\ \A i \in DOMAIN u : u[i] # v[i] => i > Len(u) - Len(UrlTail(u))

\* C16: two candidates with identical width and height whose urls have
\* near-identical (but not equal) tails are never both selected, even if both
\* score highest.
C16_NearIdenticalNeverBothSelected ==
    sel_pc = "returned" =>
        \A a, b \in DOMAIN selected :
            ~ /\ a # b
              /\ selected[a].image_width = selected[b].image_width
              /\ selected[a].image_height = selected[b].image_height
              /\ NearIdenticalTails(selected[a].image_url, selected[b].image_url)


-----------------------------------------------------------------------------
(* Claims about the scrape-select pipeline *)

\* every branch of a fan-out has its task from the launch on, and the gather
\* has returned only when every branch has settled
C12_AllLaunchedAllSettled ==
    /\ scrape_pc \in {"gather", "returned", "raised"} =>
          DOMAIN results = DOMAIN queries
    /\ ScrapeDone => \A i \in DOMAIN results : results[i] # None
    /\ upload_pc = "gather" => DOMAIN upload_results = DOMAIN up_images
    /\ (upload_pc = "returned" /\ up_images # <<>>) =>
          /\ DOMAIN upload_results = DOMAIN up_images
          /\ \A i \in DOMAIN upload_results : upload_results[i] # None

\* a step settles at most one branch and leaves every other branch as it is:
\* a pending sibling stays pending, a settled one keeps its result
C12_SiblingsUntouched ==
    /\ results # <<>> =>
          /\ DOMAIN results' = DOMAIN results
          /\ Cardinality({ i \in DOMAIN results : results'[i] # results[i] }) <= 1
          /\ \A i \in DOMAIN results : results[i] # None => results'[i] = results[i]
    /\ upload_results # <<>> =>
          /\ DOMAIN upload_results' = DOMAIN upload_results
          /\ Cardinality({ i \in DOMAIN upload_results :
                              upload_results'[i] # upload_results[i] }) <= 1
          /\ \A i \in DOMAIN upload_results :
                upload_results[i] # None => upload_results'[i] = upload_results[i]

\* C12: in the scrape and upload fan-outs all branches are launched before
\* any result is awaited, and under every interleaving each branch runs to its
\* own completion or failure: the failure of a branch never cancels or skips
\* a sibling, and the gather returns only after all branches have settled.
C12_BranchesIndependent == []C12_AllLaunchedAllSettled /\ [][C12_SiblingsUntouched]_vars

\* in both fan-outs the first branch failed and the second one, settling
\* after it, succeeded and was collected
C12_Witness ==
    /\ wf = "pipeline" /\ pc = "returned"
    /\ queries = <<1, 2>>
    /\ results[1] = Some(Raised("Activity task failed"))
    /\ Succeeded(2) /\ Len(scrape_returned[1]) = 2
    /\ Len(up_images) = 2
    /\ upload_results[1] = Some(Raised("Activity task failed"))
    /\ upload_results[2] # None /\ upload_results[2][1].kind = "result"
    /\ Len(images) = 1 /\ images[1].id = up_images[2].id


\* how often x occurs in a list
Count(list, x) == Cardinality({ i \in DOMAIN list : list[i] = x })

RECURSIVE CountInSuccesses(_, _)
\* how often x occurs in the results of the successful ones of the first n
\* branches
CountInSuccesses(x, n) ==
    IF n = 0 THEN 0
    ELSE CountInSuccesses(x, n - 1)
         + (IF Succeeded(n) THEN Count(results[n][1].output[1], x) ELSE 0)

RECURSIVE SizeOfSuccesses(_)
SizeOfSuccesses(n) ==
    IF n = 0 THEN 0
    ELSE SizeOfSuccesses(n - 1)
         + (IF Succeeded(n) THEN Len(results[n][1].output[1]) ELSE 0)

\* the distinct non-empty urls of a list of candidates
DistinctUrls(list) == { list[i].image_url : i \in DOMAIN list } \ { <<>> }

\* C17: the raw candidate list holds, with multiplicity, exactly the
\* candidates the successful scrape branches returned; total_scraped reports
\* its size, before dedup; the post-dedup count is the number of distinct
\* urls. With 5 queries of which 2 fail and 3 return 5 candidates each, 2 of
\* them exact-url duplicates across queries, the raw count is 15, the
\* post-dedup count is 13 and the run does not raise (the 2 failed scrapes
\* fail no step; only an error of the optional rewrite activity, which is no
\* part of the example, could still end the run).
C17_RawAndDedupCounts ==
    wf = "pipeline" =>
        /\ scrape_pc = "returned" =>
              /\ Len(scrape_returned[1]) = SizeOfSuccesses(Len(results))
              /\ \A i \in Successes : \A k \in DOMAIN results[i][1].output[1] :
                    LET x == results[i][1].output[1][k]
                    IN  Count(scrape_returned[1], x) = CountInSuccesses(x, Len(results))
        /\ sel_pc \in {"sort", "pick", "returned"} =>
              /\ sel_pins = scrape_returned[1]
              /\ Len(scored_pins) = Cardinality(DistinctUrls(sel_pins))
        /\ pc = "returned" =>
              /\ SlideshowsPinterestOutput.total_scraped = Len(sel_pins)
              /\ SlideshowsPinterestOutput.total_scraped = SizeOfSuccesses(Len(results))
        /\ (queries = ScenarioQueries /\ Successes = {1, 2, 3} /\ ScrapeDone) =>
              /\ scrape_pc = "returned"
              /\ Len(scrape_returned[1]) = 15
              /\ pc \in {"raised", "exit_exc"} => CurStep = "rewrite"
              /\ sel_pc \in {"sort", "pick", "returned"} => Len(scored_pins) = 13
              /\ pc = "returned" => /\ SlideshowsPinterestOutput.total_scraped = 15
                                    /\ status = COMPLETED

C17_Witness ==
    /\ wf = "pipeline" /\ pc = "returned"
    /\ queries = ScenarioQueries
    /\ Successes = {1, 2, 3} /\ Failures = {4, 5}
    /\ \A i \in Successes : Len(results[i][1].output[1]) = 5
    /\ SlideshowsPinterestOutput.total_scraped = 15
    /\ Len(scored_pins) = 13
    /\ status = COMPLETED


-----------------------------------------------------------------------------
(* Claims about RubyWorkflow.run *)

RewriteActivities == {"rewrite_images", "rewrite_video"}
GeneratedFace == Produced("generate_image_with_model", <<>>)
GeneratedVideo == Produced("generate_video_with_model", GeneratedFace)
SlowedVideo == IF input.slowed_video THEN Produced("slow_down_video", GeneratedVideo)
                                     ELSE GeneratedVideo
OverlaidVideo == IF Truthy(input.text_overlay) THEN Produced("add_text_overlay", SlowedVideo)
                                               ELSE SlowedVideo

ExpectedOrder(inp) ==
    <<"prompts", "face", "video">>
        \o (IF inp.slowed_video THEN <<"slowmo">> ELSE <<>>)
        \o (IF Truthy(inp.text_overlay) THEN <<"text">> ELSE <<>>)
        \o (IF inp.rewrite_enabled THEN <<"rewrite">> ELSE <<>>)
        \o <<"upload">>

IsPrefix(s, t) == Len(s) <= Len(t) /\ SubSeq(t, 1, Len(s)) = s

\* the steps completed so far are the first ones of the order, the step that is
\* open is the next one of the order, and a run that has completed or returned
\* has completed them all
C20_InOrder ==
    wf = "sequential" =>
        /\ IsPrefix(completed_steps, ExpectedOrder(input))
        /\ Len(open) <= 1
        /\ open # <<>> =>
              /\ Len(completed_steps) < Len(ExpectedOrder(input))
              /\ open[1] = ExpectedOrder(input)[Len(completed_steps) + 1]
        /\ (status = COMPLETED \/ pc = "returned") =>
              /\ completed_steps = ExpectedOrder(input)
              /\ status = COMPLETED /\ pc = "returned"

\* once the body of a step was ended by an error, no step is entered or
\* completed, complete() is not called and run() does not return
C20_HaltsOnFailure ==
    (wf = "sequential" /\ pc \in {"exit_exc", "raised"}) =>
        /\ Len(open') <= Len(open)
        /\ completed_steps' = completed_steps
        /\ status' # COMPLETED
        /\ pc' \in {"exit_exc", "raised"}
        /\ ruby_urls' = ruby_urls /\ activities' = activities

\* C20: RubyWorkflow.run enters its steps strictly in the order prompts, face,
\* video, slowmo (if slowed_video), text (if text_overlay), rewrite (if
\* rewrite_enabled), upload, each only after the previous one completed; if a
\* step fails no later step is entered, complete() is never called and no
\* output is returned.
C20_StepsInOrderHaltOnFailure == []C20_InOrder /\ [][C20_HaltsOnFailure]_vars

\* the video step of a run with slow motion failed after prompts and face had
\* completed, and run() has ended by the error
C20_Witness ==
    /\ wf = "sequential" /\ input.slowed_video
    /\ pc = "raised" /\ status = FAILED
    /\ completed_steps = <<"prompts", "face">>
    /\ current_step # None /\ current_step[1].step_id = "video"
    /\ ruby_urls.raw_video_url = None


-----------------------------------------------------------------------------
(* Claims about the rewrite activities *)

\* the answer of the service holds a rewritten url for the i-th input: it is
\* the document {"data": {"urls": [...]}} (images) or {"data": {"url": ...}}
\* (video) with a non-empty string at that place
ServiceGave(i) ==
    /\ rw_reply # None /\ rw_reply[1].kind = "json"
    /\ LET b == rw_reply[1].body IN
       /\ b.top = "dict" /\ b.data = "dict"
       /\ b.member = (IF rw_op = "images" THEN "list" ELSE "value")
       /\ i <= Len(b.entries)
       /\ b.entries[i].t = "str" /\ b.entries[i].v # ""

\* C19: whatever the rewrite service does (no API key, timeout, HTTP error
\* status, connection error, an answer that is no JSON or JSON of an unexpected
\* shape, no url for an input), rewrite_images and rewrite_video never raise,
\* and they hand back one url per input, in input order: the original url
\* wherever the service gave no rewritten url.
C19_RewriteNeverRaisesKeepsOriginals ==
    /\ rw_pc \notin {"raised", "failed"}
    /\ rw_raised = None
    /\ rw_pc \in {"executed", "returned"} =>
          /\ rw_result # None
          /\ Len(rw_result[1]) = Len(rw_urls)
          /\ \A i \in DOMAIN rw_urls :
                rw_result[1][i] = IF ServiceGave(i) THEN rw_reply[1].body.entries[i].v
                                                    ELSE rw_urls[i]


-----------------------------------------------------------------------------
(* Claims about the upload stage and the output of the scrape-select pipeline *)

\* the images whose upload returned, and the place of the i-th image among them
Uploaded == { i \in DOMAIN upload_results :
                upload_results[i] # None /\ upload_results[i][1].kind = "result" }
PlaceAmongUploaded(i) == Cardinality({ j \in Uploaded : j <= i })

\* C21: an upload that errors never fails the upload stage; _upload_images
\* returns exactly the images whose upload succeeded, in the order they were
\* selected, each with its url replaced by the url of the storage and nothing
\* else changed, and leaves out the images whose upload failed.
C21_UploadDropsFailed ==
    /\ (wf = "pipeline" /\ pc \in {"body", "exit_ok", "exit_exc", "raised"}
            /\ step_idx \in DOMAIN Plan(wf, input) /\ CurStep = "upload") =>
          pc \in {"body", "exit_ok"}
    /\ (upload_pc = "returned" /\ up_images # <<>>) =>
          /\ upload_returned # None
          /\ Len(upload_returned[1]) = Cardinality(Uploaded)
          /\ \A i \in Uploaded :
                upload_returned[1][PlaceAmongUploaded(i)] =
                    [up_images[i] EXCEPT !.image_url = upload_results[i][1].url]

\* two uploads succeeded around one that failed, and the stage has returned
C21_Witness ==
    /\ wf = "pipeline" /\ upload_pc = "returned"
    /\ Len(up_images) = 3 /\ Uploaded = {1, 3}
    /\ Len(upload_returned[1]) = 2
    /\ upload_returned[1][2].id = up_images[3].id
    /\ upload_returned[1][2].image_url # up_images[3].image_url


\* C22: whenever SlideshowsPinterestWorkflow.run ends with the status
\* COMPLETED, its output holds at least one image and at least one query: a run
\* in which every scrape returned nothing, or every upload failed, is never
\* reported as a success with zero images.
C22_CompletedHasImages ==
    (wf = "pipeline" /\ status = COMPLETED /\ pc = "returned") =>
        /\ Len(SlideshowsPinterestOutput.images) >= 1
        /\ Len(SlideshowsPinterestOutput.queries_used) >= 1


\* C23: the scrape-select workflow returns the best 10 images: the selection
\* never holds more than 10 images.
C23_AtMostTenImages ==
    sel_pc = "returned" => Len(selected) <= 10


-----------------------------------------------------------------------------
(* Claims about the order of the scrape branches *)

PinsOf(i) == IF Succeeded(i) /\ results[i][1].output # None
             THEN results[i][1].output[1] ELSE <<>>

RECURSIVE FlattenFrom(_)
\* the pins of the successful branches from the i-th query on, in query order
FlattenFrom(i) == IF i > Len(results) THEN <<>> ELSE PinsOf(i) \o FlattenFrom(i + 1)

\* C24: in whatever order the concurrent scrapes settle, the list that
\* _scrape_pinterest returns is the concatenation of the successful scrapes'
\* pins in the order of the queries, and it is that list the selection gets:
\* the selected output does not depend on the interleaving.
C24_FlattenedInQueryOrder ==
    /\ scrape_pc = "returned" =>
          /\ all_pins = FlattenFrom(1)
          /\ scrape_returned = Some(FlattenFrom(1))
          /\ sel_pc # "idle" => sel_pins = FlattenFrom(1)
    /\ scrape_pc = "gather" =>
          /\ Len(settle_order) = Cardinality({ i \in DOMAIN results : results[i] # None })
          /\ \A k \in DOMAIN settle_order : results[settle_order[k]] # None

\* the scrape of the second query settled before the scrape of the first, both
\* with pins, and the pins of the first come first in the list returned
C24_Witness ==
    /\ wf = "pipeline" /\ scrape_pc = "returned"
    /\ Len(settle_order) >= 2 /\ settle_order[1] = 2 /\ settle_order[2] = 1
    /\ PinsOf(1) # <<>> /\ PinsOf(2) # <<>> /\ PinsOf(1) \o PinsOf(2) # PinsOf(2) \o PinsOf(1)
    /\ SubSeq(scrape_returned[1], 1, Len(PinsOf(1))) = PinsOf(1)


-----------------------------------------------------------------------------
(* Claims about the rewrite stage of RubyWorkflow.run *)

\* the url was handed to a rewrite activity, or is what one made of a url
\* handed to it
WentThroughRewrite(url) ==
    \E k \in DOMAIN ruby_urls.rewrite_inputs :
        LET x == ruby_urls.rewrite_inputs[k] IN
        url \in {x, Produced("rewrite_images", x), Produced("rewrite_video", x)}

\* C25: in a run of RubyWorkflow with rewrite_enabled = true that returns, the
\* rewrite stage was applied to every media url of the output: the face image
\* (before its upload), the raw video and the final video.
C25_RewriteAppliedToAllUrls ==
    (wf = "sequential" /\ input.rewrite_enabled /\ pc = "returned") =>
        /\ RubyOutput.face_image_url = Produced("upload_to_storage", ruby_urls.face_image_url[1])
        /\ WentThroughRewrite(ruby_urls.face_image_url[1])
        /\ WentThroughRewrite(RubyOutput.final_video_url)
        /\ WentThroughRewrite(RubyOutput.raw_video_url)


-----------------------------------------------------------------------------
(* Claims about the status over a run of a workflow *)

PlanIds(w, inp) == [i \in DOMAIN Plan(w, inp) |-> Plan(w, inp)[i].id]

\* CANCELLED is never the status; a completed run has entered and completed
\* every step of its plan and has none open
C26_Statuses ==
    wf \in Workflows =>
        /\ status \in {PENDING, RUNNING, COMPLETED, FAILED}
        /\ status = COMPLETED =>
              /\ completed_steps = PlanIds(wf, input)
              /\ open = <<>>
              /\ pc = "returned"
        /\ status = PENDING => completed_steps = <<>> /\ current_step = None

\* the status moves from PENDING to RUNNING and from RUNNING to COMPLETED or
\* to FAILED only, and once it is FAILED no operation of the context runs
C26_Moves ==
    (wf \in Workflows) =>
        (/\ \/ status' = status
            \/ <<status, status'>> \in {<<PENDING, RUNNING>>, <<RUNNING, COMPLETED>>,
                                        <<RUNNING, FAILED>>}
         /\ status = FAILED =>
               UNCHANGED <<status, current_step, completed_steps, open>>)

\* C26: in the run of each workflow (hello-world, Ruby, Pinterest slideshows)
\* the status only moves PENDING -> RUNNING -> COMPLETED or PENDING -> RUNNING
\* -> FAILED; complete() is reached only when every entered step completed,
\* after a step failure no further operation of the context runs, and
\* CANCELLED is never assigned.
C26_StatusTransitions == []C26_Statuses /\ [][C26_Moves]_vars

\* a run of the Ruby workflow failed in its third step and has ended
C26_Witness ==
    /\ wf = "ruby" /\ status = FAILED /\ pc = "raised"
    /\ Len(completed_steps) = 2
    /\ current_step # None /\ current_step[1].status = FAILED


\* C27: in a run of RubyWorkflow, every error that ends run() after start()
\* succeeded, the rejection of an invalid aspect_ratio included, leaves the
\* status FAILED with the failing stage recorded in the current step; the
\* status is never left RUNNING after run() has ended by an error.
C27_ErrorLeavesFailed ==
    (wf = "sequential" /\ pc = "raised" /\ AuthError(app_config, input) = None) =>
        /\ status = FAILED
        /\ current_step # None /\ current_step[1].status = FAILED


-----------------------------------------------------------------------------
(* Claims about one scrape *)

\* C28: a scrape whose tool call fails (the params do not validate, timeout,
\* HTTP error status, connection error, and the other failures of the tool) is
\* executed exactly once for its query: execute_tool returns the failure as a
\* value with success = false, the retry policy is not triggered, and the
\* branch is counted as failed; only an unknown tool id makes execute_tool
\* raise, and only then is the activity executed again.
C28_ToolFailureNotRetried ==
    /\ (et_tool_id \in RegisteredTools /\ et_fault # "none"
            /\ et_pc \in {"settled", "collected"}) =>
          /\ et_attempts = 1
          /\ et_result[1].kind = "result"
          /\ ~et_result[1].success
          /\ et_result[1].error = Some(FaultText(et_fault))
          /\ et_pc = "collected" =>
                /\ et_pins = <<>>
                /\ et_errors = <<ErrorEntry(et_query, FaultText(et_fault))>>
    /\ (et_attempts > 1 \/ (et_result # None /\ et_result[1].kind = "exception")) =>
          et_tool_id \notin RegisteredTools
    /\ et_attempts <= MAXIMUM_ATTEMPTS

\* the scrape of a query timed out: executed once, counted as failed
C28_Witness ==
    /\ et_tool_id \in RegisteredTools /\ et_fault = "timeout"
    /\ et_pc = "collected" /\ et_attempts = 1
    /\ Len(et_errors) = 1 /\ et_errors[1].error = "Request timed out"


-----------------------------------------------------------------------------
(* Claims about get_temporal_client *)

\* the callers that hold a client
Holders == {c \in Callers : cl_got[c] # None}

\* C29: get_temporal_client behaves as a singleton: under any interleaving of
\* concurrent callers at most one connection is established per process and
\* every caller receives the same client instance; a failed connect caches
\* nothing.
C29_Singleton ==
    /\ cl_connects <= 1
    /\ \A c, d \in Holders : cl_got[c] = cl_got[d]
    /\ cl_connects = 0 => cl_instance = None

-----------------------------------------------------------------------------
(* Claims about the generation activities *)

\* C30: ReplicateClient.run with wait = true returns only after the prediction
\* reached a terminal status, and a generation activity returns normally only
\* for a succeeded prediction, with a URL to pass on: a prediction that ends
\* failed or canceled makes the activity fail.
C30_OnlySucceededReturns ==
    /\ (rp_wait /\ rp_prediction # None) =>
          rp_prediction[1].status \in TerminalStatuses
    /\ (rp_activity # None /\ rp_activity[1].kind = "result") =>
          /\ rp_prediction[1].status = "succeeded"
          /\ rp_activity[1].output_url # <<>>

====
